---- MODULE Spec2Model ----
(***************************************************************************)
(* Cost accounting layer of the agentic survey research team:             *)
(*   CostTracker        (src/cost_tracker.py)   the UsageEvent store      *)
(*   CostBudgetManager  (src/cost_optimizer.py) the budget classifier     *)
(*   QueryCache         (src/cost_optimizer.py) the response memo         *)
(*   PromptOptimizer    (src/cost_optimizer.py) the prompt compactor      *)
(*   TrackedLLM         (src/tracked_llm.py)    the metered call gateway  *)
(*                                                                         *)
(* Money is counted in micro-dollars (1e-6 USD), the resolution that      *)
(* calculate_cost rounds to.  Time is counted in clock ticks; a timestamp *)
(* is stored in its ISO form (date, time of day) and compared field by    *)
(* field, as SQLite compares the ISO strings.  Text is a TLA+ string.     *)
(***************************************************************************)
EXTENDS Integers, Sequences, FiniteSets, TLC

VARIABLES
    now,                 \* the wall clock, datetime.now()
    events,              \* table cost_events, in insertion (id) order
    cache,               \* table query_cache, in insertion (id) order
    current_session_id,  \* CostTracker.current_session_id
    session_budget,      \* CostTracker.session_budget
    daily_budget,        \* CostTracker.daily_budget
    current_agent,       \* TrackedLLM.current_agent
    current_task,        \* TrackedLLM.current_task
    tracked,             \* history: what was committed to the tables, and at which tick
    status,              \* the last result of check_budget_status
    last,                \* the last gateway call: what it did and returned
    calls                \* history: the number of operations carried out so far

vars == <<now, events, cache, current_session_id, session_budget, daily_budget,
          current_agent, current_task, tracked, status, last, calls>>

-----------------------------------------------------------------------------
(* Bounds of the model *)

\* clock ticks in a calendar day
TicksPerDay == 2
\* operations (gateway calls, direct tracker and cache calls) in a behaviour
MaxCalls == 2
\* the clock runs from tick 0 to the first midnight after it
MaxTime == TicksPerDay
\* cache_duration_hours = 24: one day
CacheDurationTicks == TicksPerDay

-----------------------------------------------------------------------------
(* Text *)

UpperChars == "ABCDEFGHIJKLMNOPQRSTUVWXYZ"
LowerChars == "abcdefghijklmnopqrstuvwxyz"

CharAt(s, i) == SubSeq(s, i, i)

\* str.lower() on one character
LowerMap ==
    [c \in {CharAt(UpperChars, i) : i \in 1..Len(UpperChars)} |->
        CharAt(LowerChars, CHOOSE i \in 1..Len(UpperChars) : CharAt(UpperChars, i) = c)]

LowerChar(c) == IF c \in DOMAIN LowerMap THEN LowerMap[c] ELSE c

RECURSIVE Lower(_)
Lower(s) == IF s = "" THEN "" ELSE LowerChar(CharAt(s, 1)) \o Lower(Tail(s))

RECURSIVE LStrip(_)
LStrip(s) == IF s # "" /\ CharAt(s, 1) = " " THEN LStrip(Tail(s)) ELSE s

RECURSIVE RStrip(_)
RStrip(s) ==
    IF s # "" /\ CharAt(s, Len(s)) = " " THEN RStrip(SubSeq(s, 1, Len(s) - 1)) ELSE s

Strip(s) == RStrip(LStrip(s))

StartsWith(s, p) == Len(p) <= Len(s) /\ SubSeq(s, 1, Len(p)) = p

\* str.replace(old, new): left to right, non-overlapping; old is never empty here
RECURSIVE Replace(_, _, _)
Replace(s, old, new) ==
    IF s = "" THEN ""
    ELSE IF StartsWith(s, old)
         THEN new \o Replace(SubSeq(s, Len(old) + 1, Len(s)), old, new)
         ELSE CharAt(s, 1) \o Replace(Tail(s), old, new)

Contains(s, p) == \E i \in 1..(Len(s) - Len(p) + 1) : SubSeq(s, i, i + Len(p) - 1) = p

\* len(text.split()): the number of maximal runs of non-blank characters
RECURSIVE WordCount(_)
WordCount(s) ==
    IF s = "" THEN 0
    ELSE IF CharAt(s, 1) = " " THEN WordCount(Tail(s))
    ELSE IF Len(s) = 1 \/ CharAt(s, 2) = " " THEN 1 + WordCount(Tail(s))
    ELSE WordCount(Tail(s))

Max(a, b) == IF a >= b THEN a ELSE b

-----------------------------------------------------------------------------
(* Time *)

\* datetime.isoformat(): the date field, then the time-of-day field
IsoFormat(t) == <<t \div TicksPerDay, t % TicksPerDay>>

\* comparison of two ISO strings, as SQLite's TEXT comparison does it
IsoLess(a, b) == a[1] < b[1] \/ (a[1] = b[1] /\ a[2] < b[2])
IsoLeq(a, b) == a = b \/ IsoLess(a, b)

\* date.replace(hour=0, minute=0, second=0, microsecond=0)
StartOfDay(t) == t - (t % TicksPerDay)

-----------------------------------------------------------------------------
(* CostTracker: pricing *)

DefaultModel == "anthropic/claude-sonnet-4-20250514"

\* MODEL_PRICING, in micro-dollars per 1000 tokens
MODEL_PRICING ==
    [m \in {"anthropic/claude-sonnet-4-20250514", "anthropic/claude-3-sonnet-20240229"} |->
        [input_per_1k |-> 3000, output_per_1k |-> 15000]]

\* a rounding that drops the digits after the sixth
RoundHalfEven_Floor(n, d) == n \div d

\* round(n / d) to the nearest integer, ties to even, for n >= 0 and d > 0
RoundHalfEven(n, d) ==
    LET q == n \div d
        r == n % d
    IN  IF 2 * r < d THEN q
        ELSE IF 2 * r > d THEN q + 1
        ELSE IF q % 2 = 0 THEN q ELSE q + 1

\* in * input_per_1k + out * output_per_1k, in thousandths of a micro-dollar, as
\* the pair <<micro-dollars, thousandths>> (the product itself may not fit a
\* machine integer of the checker)
Thousandths(pricing, input_tokens, output_tokens) ==
    << input_tokens * (pricing.input_per_1k \div 1000)
         + output_tokens * (pricing.output_per_1k \div 1000),
       input_tokens * (pricing.input_per_1k % 1000)
         + output_tokens * (pricing.output_per_1k % 1000) >>

\* a price that never goes below a minimum fee of one micro-dollar
Price_MinimumFee(pricing, input_tokens, output_tokens) ==
    LET n == Thousandths(pricing, input_tokens, output_tokens)
        odd == n[1] % 2
    IN  Max(1, (n[1] - odd) + RoundHalfEven(1000 * odd + n[2], 1000))

\* round(in/1000 * input_per_1k + out/1000 * output_per_1k, 6) with the rates of
\* one row of the pricing table; the even part of the whole micro-dollars is
\* taken out of the rounding, which does not change its result
Price(pricing, input_tokens, output_tokens) ==
    LET n == Thousandths(pricing, input_tokens, output_tokens)
        odd == n[1] % 2
    IN  (n[1] - odd) + RoundHalfEven(1000 * odd + n[2], 1000)

\* a price that charges nothing for a model it does not know
calculate_cost_UnknownFree(model, input_tokens, output_tokens) ==
    IF model \notin DOMAIN MODEL_PRICING THEN 0
    ELSE Price(MODEL_PRICING[model], input_tokens, output_tokens)

\* calculate_cost: an unknown model is priced as the default model
calculate_cost(model, input_tokens, output_tokens) ==
    LET m == IF model \notin DOMAIN MODEL_PRICING THEN DefaultModel ELSE model
        pricing == MODEL_PRICING[m]
    IN  Price(pricing, input_tokens, output_tokens)

-----------------------------------------------------------------------------
(* CostTracker: the event store and its aggregates *)

CostEvent(t, agent_name, session_id, model, input_tokens, output_tokens, task_description) ==
    [timestamp        |-> IsoFormat(t),
     agent_name       |-> agent_name,
     session_id       |-> session_id,
     model            |-> model,
     input_tokens     |-> input_tokens,
     output_tokens    |-> output_tokens,
     cost_usd         |-> calculate_cost(model, input_tokens, output_tokens),
     task_description |-> task_description]

\* SELECT SUM(cost_usd) over the selected rows (NULL, "or 0.0", is 0)
RECURSIVE SumCost(_)
SumCost(rows) == IF rows = <<>> THEN 0 ELSE Head(rows).cost_usd + SumCost(Tail(rows))

\* a session aggregate that forgets its WHERE clause
SessionRow_AnySession(e, session_id) == TRUE

SessionRow(e, session_id) == e.session_id = session_id

get_session_cost(ev, session_id) ==
    LET Keep(e) == SessionRow(e, session_id) IN SumCost(SelectSeq(ev, Keep))

\* a day window that is closed at its upper end
DailyRow_InclusiveEnd(e, date) ==
    LET start_of_day == StartOfDay(date)
        end_of_day   == start_of_day + TicksPerDay
    IN  /\ IsoLeq(IsoFormat(start_of_day), e.timestamp)
        /\ IsoLeq(e.timestamp, IsoFormat(end_of_day))

DailyRow(e, date) ==
    LET start_of_day == StartOfDay(date)
        end_of_day   == start_of_day + TicksPerDay
    IN  /\ IsoLeq(IsoFormat(start_of_day), e.timestamp)
        /\ IsoLess(e.timestamp, IsoFormat(end_of_day))

get_daily_cost(ev, date) ==
    LET Keep(e) == DailyRow(e, date) IN SumCost(SelectSeq(ev, Keep))

\* get_agent_costs: agent -> summed cost over the trailing window (GROUP BY agent_name)
get_agent_costs(ev, t, timeframe) ==
    LET cutoff == IsoFormat(t - timeframe)
        InWindow(e) == IsoLeq(cutoff, e.timestamp)
        names == {ev[i].agent_name : i \in {j \in 1..Len(ev) : InWindow(ev[j])}}
    IN  [a \in names |->
            LET Keep(e) == InWindow(e) /\ e.agent_name = a IN SumCost(SelectSeq(ev, Keep))]

get_cost_summary(ev, t, session_id, sbudget, dbudget) ==
    LET current_session_cost == get_session_cost(ev, session_id)
        daily_cost           == get_daily_cost(ev, t)
    IN  [current_session |-> [session_id |-> session_id,
                              cost       |-> current_session_cost,
                              budget     |-> sbudget,
                              remaining  |-> Max(0, sbudget - current_session_cost)],
         today           |-> [cost      |-> daily_cost,
                              budget    |-> dbudget,
                              remaining |-> Max(0, dbudget - daily_cost)],
         agent_breakdown |-> get_agent_costs(ev, t, TicksPerDay)]

\* track_api_call.  fault is what the storage layer does to this call:
\*   "ok"     the row is committed and the alert check runs through
\*   "store"  _store_event raises before the commit (no row)
\*   "alert"  the row is committed, then _check_budget_alerts raises
RecordFaults == {"ok", "store", "alert"}

\* a recorder that keeps one row per session, overwriting the row it wrote before
track_api_call_Overwrites(ev, t, session_id, agent_name, model, input_tokens, output_tokens, task_description, fault) ==
    LET event == CostEvent(t, agent_name, session_id, model, input_tokens,
                           output_tokens, task_description)
        kept  == IF ev # <<>> /\ ev[Len(ev)].session_id = session_id
                 THEN SubSeq(ev, 1, Len(ev) - 1) ELSE ev
    IN  [events |-> IF fault = "store" THEN ev ELSE Append(kept, event),
         raised |-> fault # "ok"]

track_api_call(ev, t, session_id, agent_name, model, input_tokens, output_tokens, task_description, fault) ==
    LET event == CostEvent(t, agent_name, session_id, model, input_tokens,
                           output_tokens, task_description)
    IN  [events |-> IF fault = "store" THEN ev ELSE Append(ev, event),
         raised |-> fault # "ok"]

-----------------------------------------------------------------------------
(* CostBudgetManager *)

\* a usage ratio cost/limit is kept as the fraction <<numerator, denominator>>
warning_threshold == <<7, 10>>
critical_threshold == <<9, 10>>
ModerateFloor == <<3, 10>>
One == <<1, 1>>

RatGeq(a, b) == a[1] * b[2] >= b[1] * a[2]
RatGt(a, b) == a[1] * b[2] > b[1] * a[2]
RatMax(a, b) == IF RatGeq(a, b) THEN a ELSE b

\* cost / budget if budget > 0 else 0
UsageRatio(cost, budget) == IF budget > 0 THEN <<cost, budget>> ELSE <<0, 1>>

\* a classifier whose CRITICAL band starts above, not at, the threshold
_get_usage_status_StrictCritical(usage) ==
    IF RatGeq(usage, One) THEN "EXCEEDED"
    ELSE IF RatGt(usage, critical_threshold) THEN "CRITICAL"
    ELSE IF RatGeq(usage, warning_threshold) THEN "WARNING"
    ELSE IF RatGeq(usage, ModerateFloor) THEN "MODERATE"
    ELSE "LOW"

_get_usage_status(usage) ==
    IF RatGeq(usage, One) THEN "EXCEEDED"
    ELSE IF RatGeq(usage, critical_threshold) THEN "CRITICAL"
    ELSE IF RatGeq(usage, warning_threshold) THEN "WARNING"
    ELSE IF RatGeq(usage, ModerateFloor) THEN "MODERATE"
    ELSE "LOW"

optimization_tips ==
    << "Consider using cached results for similar queries",
       "Try more specific prompts to reduce token usage",
       "Break large research tasks into smaller, focused queries",
       "Use agent-specific optimized prompts",
       "Enable prompt optimization to reduce redundancy" >>

\* a gate that the daily scope closes as well
ShouldContinue_DailyBlocks(session_usage, daily_usage) ==
    ~RatGt(session_usage, critical_threshold) /\ ~RatGt(daily_usage, critical_threshold)

\* status['should_continue']: cleared only in the session branch
ShouldContinue(session_usage, daily_usage) == ~RatGt(session_usage, critical_threshold)

\* check_budget_status over a cost summary; tip_hash is hash(str(date)), which
\* the interpreter fixes per process
check_budget_status(summary, tip_hash) ==
    LET session_data  == summary.current_session
        daily_data    == summary.today
        session_usage == UsageRatio(session_data.cost, session_data.budget)
        daily_usage   == UsageRatio(daily_data.cost, daily_data.budget)
        session_recs  ==
            IF RatGt(session_usage, critical_threshold)
            THEN << "Session budget critically low - consider ending session",
                    "Use 'cost' command to see detailed breakdown" >>
            ELSE IF RatGt(session_usage, warning_threshold)
            THEN << "Session budget approaching limit",
                    "Consider enabling caching for remaining queries" >>
            ELSE << >>
        daily_recs    ==
            IF RatGt(daily_usage, critical_threshold)
            THEN << "Daily budget critically low", "Focus on essential queries only" >>
            ELSE IF RatGt(daily_usage, warning_threshold)
            THEN << "Daily budget approaching limit", "Consider prompt optimization" >>
            ELSE << >>
        top           == RatMax(session_usage, daily_usage)
        tip_recs      ==
            IF RatGt(top, ModerateFloor) /\ RatGt(warning_threshold, top)
            THEN << optimization_tips[(tip_hash % Len(optimization_tips)) + 1] >>
            ELSE << >>
    IN  [session         |-> _get_usage_status(session_usage),
         daily           |-> _get_usage_status(daily_usage),
         session_usage   |-> session_usage,
         daily_usage     |-> daily_usage,
         recommendations |-> session_recs \o daily_recs \o tip_recs,
         should_continue |-> ShouldContinue(session_usage, daily_usage)]

-----------------------------------------------------------------------------
(* PromptOptimizer *)

redundant_patterns ==
    << <<"comprehensive and detailed", "comprehensive">>,
       <<"analyze and examine", "analyze">>,
       <<"identify and find", "identify">>,
       <<"research and investigate", "research">>,
       <<"please make sure to", "ensure">>,
       <<"it is important to", "">>,
       <<"you should focus on", "focus on">> >>

\* apply the substitution pairs of a list in order
RECURSIVE ReplaceAll(_, _)
ReplaceAll(s, pairs) ==
    IF pairs = <<>> THEN s
    ELSE ReplaceAll(Replace(s, Head(pairs)[1], Head(pairs)[2]), Tail(pairs))

_remove_redundant_phrases(prompt) == ReplaceAll(prompt, redundant_patterns)

\* one line of _compress_examples
CompressLine(line) ==
    IF StartsWith(LStrip(line), "- ") /\ Contains(Lower(line), "example:")
    THEN Replace(Replace(line, "For example:", "e.g."), "Such as:", "e.g.")
    ELSE line

\* prompt.split('\n'), each line compressed, '\n'.join
RECURSIVE CompressFrom(_, _)
CompressFrom(line, rest) ==
    IF rest = "" THEN CompressLine(line)
    ELSE IF CharAt(rest, 1) = "\n"
         THEN CompressLine(line) \o "\n" \o CompressFrom("", Tail(rest))
         ELSE CompressFrom(line \o CharAt(rest, 1), Tail(rest))

_compress_examples(prompt) == CompressFrom("", prompt)

_optimize_structure(prompt, agent_context) ==
    LET ctx == Lower(agent_context)
    IN  IF Contains(ctx, "coordinator")
        THEN ReplaceAll(prompt, << <<"detailed analysis", "strategic analysis">>,
                                   <<"comprehensive review", "focused review">> >>)
        ELSE IF Contains(ctx, "searcher")
        THEN ReplaceAll(prompt, << <<"find all possible", "find key">>,
                                   <<"exhaustive search", "targeted search">> >>)
        ELSE IF Contains(ctx, "analyzer")
        THEN ReplaceAll(prompt, << <<"list everything", "synthesize key points">> >>)
        ELSE prompt

optimize_prompt(prompt, agent_context) ==
    LET optimized ==
            _optimize_structure(_compress_examples(_remove_redundant_phrases(prompt)),
                                agent_context)
    IN  [text         |-> optimized,
         tokens_saved |-> Max(0, (Len(prompt) - Len(optimized)) \div 4)]

-----------------------------------------------------------------------------
(* QueryCache *)

\* a key computed from the text as given, neither trimmed nor lowercased
_generate_query_hash_Raw(query, agent_name) == agent_name \o ":" \o query

\* md5(agent_name + ":" + query.strip().lower()); the digest stands for the key
\* it is computed from (md5 is taken to be collision-free)
_generate_query_hash(query, agent_name) == agent_name \o ":" \o Lower(Strip(query))

\* a lookup that still serves an entry at the age of the cache duration
LookupSelects_InclusiveCutoff(row, query_hash, agent_name, t) ==
    /\ row.query_hash = query_hash
    /\ IsoLeq(IsoFormat(t - CacheDurationTicks), row.timestamp)
    /\ row.agent_name = agent_name

\* the rows a lookup selects:
\*   WHERE query_hash = ? AND timestamp > cutoff AND agent_name = ?
LookupSelects(row, query_hash, agent_name, t) ==
    /\ row.query_hash = query_hash
    /\ IsoLess(IsoFormat(t - CacheDurationTicks), row.timestamp)
    /\ row.agent_name = agent_name

\* a lookup that counted every hit twice
CountHit_Twice(ca, query_hash, agent_name) ==
    [i \in 1..Len(ca) |->
        IF ca[i].query_hash = query_hash /\ ca[i].agent_name = agent_name
        THEN [ca[i] EXCEPT !.hit_count = @ + 2]
        ELSE ca[i]]

\* UPDATE query_cache SET hit_count = hit_count + 1 WHERE query_hash = ? AND agent_name = ?
CountHit(ca, query_hash, agent_name) ==
    [i \in 1..Len(ca) |->
        IF ca[i].query_hash = query_hash /\ ca[i].agent_name = agent_name
        THEN [ca[i] EXCEPT !.hit_count = @ + 1]
        ELSE ca[i]]

\* get_cached_response: the returned value (found = FALSE is None) and the table after
get_cached_response(ca, query, agent_name, t) ==
    LET query_hash == _generate_query_hash(query, agent_name)
        Selected(row) == LookupSelects(row, query_hash, agent_name, t)
        result == SelectSeq(ca, Selected)
    IN  IF result # <<>>
        THEN [found    |-> TRUE,
              response |-> Head(result).response,
              cache    |-> CountHit(ca, query_hash, agent_name)]
        ELSE [found |-> FALSE, response |-> "", cache |-> ca]

\* a plain insert that leaves the row holding the key in place
Upsert_KeepsOld(ca, key, row) == Append(ca, row)

\* INSERT OR REPLACE on the UNIQUE column query_hash: the row that holds the key
\* is deleted and the new row is inserted at the end of the table
Upsert(ca, key, row) ==
    LET Other(r) == r.query_hash # key
    IN  Append(SelectSeq(ca, Other), row)

\* cache_response.  fault is what the storage layer does to this call:
\*   "ok"       INSERT OR REPLACE commits
\*   "execute"  the statement raises inside the try: logged, nothing stored
\*   "connect"  sqlite3.connect raises, outside the try: the error leaves the method
StoreFaults == {"ok", "execute", "connect"}

\* a store that merged into the old row, carrying its hit_count over
cache_response_KeepsHits(ca, query, response, agent_name, input_tokens, output_tokens, cost, t, fault) ==
    LET query_hash == _generate_query_hash(query, agent_name)
        Held(r) == r.query_hash = query_hash
        old == SelectSeq(ca, Held)
        row == [query_hash    |-> query_hash,
                query_text    |-> query,
                response      |-> response,
                agent_name    |-> agent_name,
                timestamp     |-> IsoFormat(t),
                cost_saved    |-> cost,
                input_tokens  |-> input_tokens,
                output_tokens |-> output_tokens,
                hit_count     |-> IF old = <<>> THEN 1 ELSE Head(old).hit_count]
    IN  [cache  |-> IF fault = "ok" THEN Upsert(ca, query_hash, row) ELSE ca,
         raised |-> fault = "connect"]

cache_response(ca, query, response, agent_name, input_tokens, output_tokens, cost, t, fault) ==
    LET query_hash == _generate_query_hash(query, agent_name)
        row == [query_hash    |-> query_hash,
                query_text    |-> SubSeq(query, 1, IF Len(query) < 500 THEN Len(query) ELSE 500),
                response      |-> response,
                agent_name    |-> agent_name,
                timestamp     |-> IsoFormat(t),
                cost_saved    |-> cost,
                input_tokens  |-> input_tokens,
                output_tokens |-> output_tokens,
                hit_count     |-> 1]
    IN  [cache  |-> IF fault = "ok" THEN Upsert(ca, query_hash, row) ELSE ca,
         raised |-> fault = "connect"]

\* SUM(column) over the rows of the table
RECURSIVE SumSaved(_)
SumSaved(rows) ==
    IF rows = <<>> THEN 0 ELSE Head(rows).cost_saved * Head(rows).hit_count + SumSaved(Tail(rows))

\* SUM(hit_count - 1) and SUM(cost_saved * (hit_count - 1)) over the selected rows
RECURSIVE SumReuse(_)
SumReuse(rows) ==
    IF rows = <<>> THEN [hits |-> 0, saved |-> 0]
    ELSE LET rest == SumReuse(Tail(rows))
         IN  [hits  |-> (Head(rows).hit_count - 1) + rest.hits,
              saved |-> Head(rows).cost_saved * (Head(rows).hit_count - 1) + rest.saved]

\* the per-agent query of get_cache_stats: WHERE hit_count > 1 GROUP BY agent_name
AgentStats(ca) ==
    LET Hit(row) == row.hit_count > 1
        hit      == SelectSeq(ca, Hit)
    IN  [a \in {hit[i].agent_name : i \in 1..Len(hit)} |->
            LET Of(row) == row.agent_name = a IN SumReuse(SelectSeq(hit, Of))]

\* get_cache_stats: total_entries, total_cost_saved, agent_stats and recent_entries
get_cache_stats(ca, t) ==
    LET Recent(row) == IsoLess(IsoFormat(t - TicksPerDay), row.timestamp)
    IN  [total_entries    |-> Len(ca),
         total_cost_saved |-> SumSaved(ca),
         agent_stats      |-> AgentStats(ca),
         recent_entries   |-> Len(SelectSeq(ca, Recent))]

\* a cleanup that also deletes the entries at exactly the age of the cache duration
CleanupDeletes_AtHorizon(row, t) == IsoLeq(row.timestamp, IsoFormat(t - CacheDurationTicks))

\* the rows cleanup deletes:  DELETE FROM query_cache WHERE timestamp < cutoff
CleanupDeletes(row, t) == IsoLess(row.timestamp, IsoFormat(t - CacheDurationTicks))

\* cleanup_expired_cache: the table after and the returned cursor.rowcount
cleanup_expired_cache(ca, t) ==
    LET Kept(row) == ~CleanupDeletes(row, t)
        kept == SelectSeq(ca, Kept)
    IN  [cache |-> kept, deleted |-> Len(ca) - Len(kept)]

-----------------------------------------------------------------------------
(* TrackedLLM: the gateway *)

GatewayModel == "anthropic/claude-sonnet-4-20250514"

BudgetSentinel == "Operation cancelled due to budget constraints."

_estimate_tokens(text) ==
    IF text = "" THEN 0
    ELSE Max(Max(1, (Len(text) * 10) \div 32), WordCount(text))

\* the concatenation of every message's content followed by a blank
RECURSIVE InputText(_)
InputText(messages) ==
    IF messages = <<>> THEN "" ELSE Head(messages) \o " " \o InputText(Tail(messages))

OptimizeMessages(messages, agent_name) ==
    [i \in 1..Len(messages) |-> optimize_prompt(messages[i], agent_name).text]

\* None, which no token count equals
None == 0 - 1

\* What _parse_response_usage can see of a response.  A response is described
\* by four places a usage may sit in: the attribute usage, the attribute
\* token_usage, the value under the key 'usage' when the response is a dict,
\* and the text str(response) searched by the two patterns.  A place is
\*   "absent"             no such attribute, not a dict or no such key, no match
\*   "other"              a value with neither pair of count fields (None as an
\*                        attribute value, an empty dict, ...)
\*   "null"               a dict value on which the `in` test raises TypeError
\*   "input_output"       a value with input_tokens and output_tokens
\*   "prompt_completion"  a value with prompt_tokens and completion_tokens
\* and first, second are the two counts of a value that has a pair.
Place(names, first, second) == [names |-> names, first |-> first, second |-> second]
Absent == Place("absent", None, None)
CountFields == {"input_output", "prompt_completion"}

\* _parse_response_usage: Method 1 to Method 4 in order inside one try block;
\* the first value with a pair of count fields is returned as it is, and an
\* exception anywhere ends the search with (None, None)
_parse_response_usage(response) ==
    LET Counts(u) == [input_tokens |-> u.first, output_tokens |-> u.second]
    IN  IF response.usage.names \in CountFields THEN Counts(response.usage)
        ELSE IF response.token_usage.names \in CountFields THEN Counts(response.token_usage)
        ELSE IF response.dict_usage.names = "null"
             THEN [input_tokens |-> None, output_tokens |-> None]
        ELSE IF response.dict_usage.names \in CountFields THEN Counts(response.dict_usage)
        ELSE IF response.repr.names \in CountFields THEN Counts(response.repr)
        ELSE [input_tokens |-> None, output_tokens |-> None]

\* lines 196-212 of call: the counts that are priced and recorded
UsageForPricing(response, text, estimated_input_tokens) ==
    LET actual == _parse_response_usage(response)
    IN  IF actual.input_tokens # None /\ actual.output_tokens # None
        THEN [input_tokens |-> actual.input_tokens, output_tokens |-> actual.output_tokens]
        ELSE [input_tokens  |-> estimated_input_tokens,
              output_tokens |-> _estimate_tokens(text)]

\* the except clause of call: meter the failed attempt, then re-raise.  An error
\* raised by track_api_call inside the clause replaces the one being handled.
CallHandler(ev, t, session_id, agent_name, task, estimated_input_tokens, error, fault) ==
    LET tr == track_api_call(ev, t, session_id, agent_name, GatewayModel,
                             estimated_input_tokens, 0, "FAILED: " \o task, fault)
    IN  [events  |-> tr.events,
         outcome |-> "raised",
         error   |-> IF tr.raised THEN "storage" ELSE error,
         value   |-> ""]

\* the try block of call, from the external call on.  ext is what the external
\* call does; f.store, f.rec1, f.rec2 are the storage faults of cache_response,
\* of track_api_call in the try block and of track_api_call in the except clause
CallDispatch(ev, ca, t, session_id, agent_name, task, input_text, estimated_input_tokens, ext, f) ==
    IF ext.kind = "raise"
    THEN [cache |-> ca] @@ CallHandler(ev, t, session_id, agent_name, task,
                                       estimated_input_tokens, "external", f.rec2)
    ELSE
        LET usage         == UsageForPricing(ext.response, ext.text, estimated_input_tokens)
            input_tokens  == usage.input_tokens
            output_tokens == usage.output_tokens
            cost          == calculate_cost(GatewayModel, input_tokens, output_tokens)
            st            == cache_response(ca, input_text, ext.text, agent_name,
                                            input_tokens, output_tokens, cost, t, f.store)
            tr            == track_api_call(ev, t, session_id, agent_name, GatewayModel,
                                            input_tokens, output_tokens, task, f.rec1)
        IN  IF st.raised
            THEN [cache |-> st.cache] @@ CallHandler(ev, t, session_id, agent_name, task,
                                                     estimated_input_tokens, "storage", f.rec2)
            ELSE IF tr.raised
            THEN [cache |-> st.cache] @@ CallHandler(tr.events, t, session_id, agent_name, task,
                                                     estimated_input_tokens, "storage", f.rec2)
            ELSE [cache   |-> st.cache,
                  events  |-> tr.events,
                  outcome |-> "returned",
                  error   |-> "",
                  value   |-> ext.text]

\* the part of call before the budget and dispatch stages: the request text,
\* the cache lookup, and the estimate of the (optimized) input
CallPrelude(ca, t, agent_name, messages) ==
    LET input_text == InputText(messages)
    IN  [input_text |-> input_text,
         lk         |-> get_cached_response(ca, input_text, agent_name, t),
         estimated_input_tokens |->
             _estimate_tokens(InputText(OptimizeMessages(messages, agent_name)))]

\* TrackedLLM.call as a function of the stores and of what the environment does
\* during the call; p is CallPrelude of the same call.  dispatched tells whether
\* self.llm.call was invoked, found whether the lookup selected a row.
GatewayCall(ev, ca, t, session_id, agent_name, task, p, ext, f) ==
    IF f.lookup
    THEN [cache |-> ca, events |-> ev, outcome |-> "raised", error |-> "storage",
          value |-> "", dispatched |-> FALSE, found |-> FALSE]
    ELSE IF p.lk.response # ""
    THEN [cache |-> p.lk.cache, events |-> ev, outcome |-> "returned", error |-> "",
          value |-> p.lk.response, dispatched |-> FALSE, found |-> p.lk.found]
    ELSE [dispatched |-> TRUE, found |-> p.lk.found]
            @@ CallDispatch(ev, p.lk.cache, t, session_id, agent_name, task, p.input_text,
                            p.estimated_input_tokens, ext, f)

\* the stages TrackedLLM.call goes through, in the order of its statements:
\* lookup (154-158), optimizer (160-190), llm.call (194), _parse_response_usage
\* (197), calculate_cost (215), cache_response (218-227), track_api_call
\* (230-236), return (241); the except clause (243-253) meters and re-raises
CallStages(p, ext, f) ==
    IF f.lookup THEN <<"CACHE_CHECK", "RAISE">>
    ELSE IF p.lk.response # "" THEN <<"CACHE_CHECK", "RETURN">>
    ELSE <<"CACHE_CHECK", "COMPACT", "DISPATCH">> \o
         (IF ext.kind = "raise" THEN <<"RECORD_FAILED", "RAISE">>
          ELSE <<"PARSE_USAGE", "PRICE", "CACHE_STORE">> \o
               (IF f.store = "connect" THEN <<"RECORD_FAILED", "RAISE">>
                ELSE <<"RECORD">> \o
                     (IF f.rec1 # "ok" THEN <<"RECORD_FAILED", "RAISE">>
                      ELSE <<"RETURN">>)))

-----------------------------------------------------------------------------
(* The inputs the model draws from *)

Agents == {"Research Coordinator"}
Tasks == {""}
Queries == {"it is important to q"}
\* a response that is plain text without counts, and one that reports its usage
PlainResponse == [usage |-> Absent, token_usage |-> Absent, dict_usage |-> Absent, repr |-> Absent]
ReportingResponse == [PlainResponse EXCEPT !.usage = Place("input_output", 2, 1)]
ExtOutcomes ==
    { [kind |-> "raise", text |-> "", response |-> PlainResponse],
      [kind |-> "return", text |-> "", response |-> PlainResponse],
      [kind |-> "return", text |-> "r", response |-> PlainResponse],
      [kind |-> "return", text |-> "r", response |-> ReportingResponse] }
\* a fault on a step that the call does not reach is the same call without it
CallFaults ==
    {f \in [lookup : BOOLEAN, store : StoreFaults, rec1 : RecordFaults, rec2 : RecordFaults] :
        /\ f.lookup => (f.store = "ok" /\ f.rec1 = "ok" /\ f.rec2 = "ok")
        /\ f.store = "connect" => f.rec1 = "ok"}
GatewaySessionBudgets == {19}
GatewayDailyBudgets == {40}

EmptyCache == <<>>

\* the history entries of the rows a call committed at tick t
Ledger(rows, t, own) == [i \in 1..Len(rows) |-> [time |-> t, cost |-> rows[i].cost_usd, own |-> own]]
NoStatus == [op |-> "none"]
NoCall == [op |-> "none"]

\* what the history keeps of the gateway call before the last one
PrevCall(c) ==
    IF c.op = "call"
    THEN [op |-> "call", agent_name |-> c.agent_name, input_text |-> c.input_text,
          time |-> c.time, lookup |-> c.lookup, outcome |-> c.outcome,
          stored |-> c.stored, value |-> c.value]
    ELSE NoCall

-----------------------------------------------------------------------------
(* The gateway in operation: one tracked LLM shared by the agents *)

Init ==
    /\ now = 0
    /\ events = <<>>
    /\ cache = EmptyCache
    /\ current_session_id = 0
    /\ session_budget \in GatewaySessionBudgets
    /\ daily_budget \in GatewayDailyBudgets
    /\ current_agent = "Unknown"
    /\ current_task = "Unknown Task"
    /\ tracked = <<>>
    /\ status = NoStatus
    /\ last = NoCall
    /\ calls = 0

\* time passes
Tick ==
    /\ now < MaxTime
    /\ now' = now + 1
    /\ UNCHANGED <<events, cache, current_session_id, session_budget, daily_budget,
                   current_agent, current_task, tracked, status, last, calls>>

\* TrackedLLM.set_context, reached through get_tracked_llm and set_agent_context
set_context(agent_name, task_description) ==
    /\ current_agent' = agent_name
    /\ current_task' = task_description
    /\ UNCHANGED <<now, events, cache, current_session_id, session_budget, daily_budget,
                   tracked, status, last, calls>>

\* TrackedLLM.call
call(messages) ==
    /\ calls < MaxCalls
    /\ calls' = calls + 1
    /\ \E p \in {CallPrelude(cache, now, current_agent, messages)},
          pre \in {get_cost_summary(events, now, current_session_id,
                                    session_budget, daily_budget)} :
       LET denied == ~check_budget_status(pre, 0).should_continue
       IN  \E ext \in ExtOutcomes, f \in CallFaults :
           \E r \in {GatewayCall(events, cache, now, current_session_id, current_agent,
                                  current_task, p, ext, f)} :
           LET added == SubSeq(r.events, Len(events) + 1, Len(r.events))
           IN  /\ events' = r.events
               /\ cache' = r.cache
               /\ tracked' = tracked \o Ledger(added, now, TRUE)
               /\ last' = [op             |-> "call",
                           prev           |-> PrevCall(last),
                           agent_name     |-> current_agent,
                           input_text     |-> p.input_text,
                           time           |-> now,
                           stored         |-> r.dispatched /\ ext.kind = "return"
                                                /\ f.store = "ok",
                           stages         |-> CallStages(p, ext, f),
                           task           |-> current_task,
                           estimated      |-> p.estimated_input_tokens,
                           lookup         |-> IF f.lookup THEN "error"
                                              ELSE IF r.found THEN "hit" ELSE "miss",
                           found_response |-> IF r.found THEN p.lk.response ELSE "",
                           denied         |-> denied,
                           dispatched     |-> r.dispatched,
                           ext            |-> IF r.dispatched THEN ext.kind ELSE "none",
                           ext_text       |-> IF r.dispatched THEN ext.text ELSE "",
                           outcome        |-> r.outcome,
                           error          |-> r.error,
                           value          |-> r.value,
                           added          |-> added,
                           session_before |-> pre.current_session.cost,
                           session_after  |-> get_session_cost(r.events, current_session_id),
                           daily_before   |-> pre.today.cost,
                           daily_after    |-> get_daily_cost(r.events, now)]
    /\ UNCHANGED <<now, current_session_id, session_budget, daily_budget,
                   current_agent, current_task, status>>

Next ==
    \/ Tick
    \/ \E a \in Agents, d \in Tasks : set_context(a, d)
    \/ \E q \in Queries : call(<<q>>)

Spec == Init /\ [][Next]_vars

TypeOK == now \in 0..MaxTime /\ calls \in 0..MaxCalls

-----------------------------------------------------------------------------
(* Claims about the gateway, checked under Spec *)

\* C1: a gateway call whose cache lookup hits is terminal: it returns the stored
\* response, does not invoke the external call and appends no UsageEvent, so the
\* session and daily costs are the same before and after the call.
C1_CacheHitIsTerminal ==
    (last.op = "call" /\ last.lookup = "hit") =>
        /\ last.outcome = "returned"
        /\ last.value = last.found_response
        /\ ~last.dispatched
        /\ last.added = <<>>
        /\ last.session_after = last.session_before
        /\ last.daily_after = last.daily_before

\* C2: whenever the budget gate denies, a gateway call that misses the cache
\* returns the cancellation sentinel, does not dispatch the external call and
\* appends no UsageEvent.
C2_DeniedCallIsCancelled ==
    (last.op = "call" /\ last.lookup = "miss" /\ last.denied) =>
        /\ last.outcome = "returned"
        /\ last.value = BudgetSentinel
        /\ ~last.dispatched
        /\ last.added = <<>>

\* C3: every dispatched gateway call appends exactly one UsageEvent, whether the
\* external call returns or raises and whatever the later parse, price, record
\* and cache-store steps do.
C3_OneEventPerDispatch ==
    (last.op = "call" /\ last.dispatched) => Len(last.added) = 1

\* C4: when the external call raises, exactly one UsageEvent is appended, with the
\* estimated input units, zero output units and a task label tagged as failed,
\* and the original error is re-raised to the caller.
C4_FailedCallIsMetered ==
    (last.op = "call" /\ last.ext = "raise") =>
        /\ Len(last.added) = 1
        /\ last.added[1].input_tokens = last.estimated
        /\ last.added[1].output_tokens = 0
        /\ last.added[1].task_description = "FAILED: " \o last.task
        /\ last.outcome = "raised"
        /\ last.error = "external"

\* C5: a storage failure during a gateway call is swallowed: whenever the external
\* call succeeded, the gateway returns that call's result and raises nothing.
C5_StorageFailureSwallowed ==
    (last.op = "call" /\ last.ext = "return") =>
        /\ last.outcome = "returned"
        /\ last.value = last.ext_text

-----------------------------------------------------------------------------
(* The tracker and the budget manager in operation, on a database that may    *)
(* hold the rows of an earlier session                                        *)

TrackerAgents == {"Test Agent"}
TrackerModels == {"anthropic/claude-sonnet-4-20250514"}
InputTokenCounts == {0, 1, 2}
OutputTokenCounts == {0, 1}
TrackerSessionBudgets == {0, 20, 40}
TrackerDailyBudgets == {-20, 0, 20, 40}
TipHashes == {0, 1}

\* what an earlier process, started at tick 0, left in cost_events
PriorEvents ==
    { <<>>,
      << CostEvent(0, "Test Agent", 0, "anthropic/claude-sonnet-4-20250514", 1, 1, "") >> }

InitTracker ==
    /\ now = 1
    /\ events \in PriorEvents
    /\ tracked = Ledger(events, 0, FALSE)
    /\ cache = EmptyCache
    /\ current_session_id = 1
    /\ session_budget \in TrackerSessionBudgets
    /\ daily_budget \in TrackerDailyBudgets
    /\ current_agent = "Unknown"
    /\ current_task = "Unknown Task"
    /\ status = NoStatus
    /\ last = NoCall
    /\ calls = 0

\* CostTracker.track_api_call, called directly
TrackApiCall(agent_name, model, input_tokens, output_tokens, fault) ==
    /\ calls < MaxCalls
    /\ calls' = calls + 1
    /\ \E tr \in {track_api_call(events, now, current_session_id, agent_name, model,
                                 input_tokens, output_tokens, "", fault)} :
          /\ events' = tr.events
          /\ tracked' = tracked \o Ledger(SubSeq(tr.events, Len(events) + 1, Len(tr.events)),
                                          now, TRUE)
    /\ UNCHANGED <<now, cache, current_session_id, session_budget, daily_budget,
                   current_agent, current_task, status, last>>

\* CostBudgetManager.check_budget_status
CheckBudgetStatus(tip_hash) ==
    /\ \E summary \in {get_cost_summary(events, now, current_session_id,
                                        session_budget, daily_budget)} :
          status' = [op |-> "status", summary |-> summary, tip_hash |-> tip_hash]
                        @@ check_budget_status(summary, tip_hash)
    /\ UNCHANGED <<now, events, cache, current_session_id, session_budget, daily_budget,
                   current_agent, current_task, tracked, last, calls>>

NextTracker ==
    \/ Tick
    \/ \E a \in TrackerAgents, m \in TrackerModels, i \in InputTokenCounts,
          o \in OutputTokenCounts, fault \in RecordFaults : TrackApiCall(a, m, i, o, fault)
    \/ \E h \in TipHashes : CheckBudgetStatus(h)

SpecTracker == InitTracker /\ [][NextTracker]_vars

-----------------------------------------------------------------------------
(* Claims about the budget manager and the tracker, checked under SpecTracker *)

\* the usage band of a scope, from its cost and limit in micro-dollars
Band(cost, limit) ==
    IF limit <= 0 THEN "LOW"
    ELSE IF cost >= limit THEN "EXCEEDED"
    ELSE IF 10 * cost >= 9 * limit THEN "CRITICAL"
    ELSE IF 10 * cost >= 7 * limit THEN "WARNING"
    ELSE IF 10 * cost >= 3 * limit THEN "MODERATE"
    ELSE "LOW"

\* the costs a scope can have reached
ScopeCosts == {3 * k : k \in 0..16}

\* C6: check_budget_status returns should_continue = false if and only if the
\* session usage ratio (session cost / session limit) is >= 0.9, the boundary
\* ratio 0.9 included.
C6_BlocksFromNinetyPercent ==
    status.op = "status" =>
        LET cost  == status.summary.current_session.cost
            limit == status.summary.current_session.budget
        IN  (status.should_continue = FALSE) <=> (limit > 0 /\ 10 * cost >= 9 * limit)

\* C7: should_continue depends only on the session ratio: with the session scope
\* fixed, every daily cost and daily limit gives the same should_continue (and
\* the same session band), daily CRITICAL and EXCEEDED included.
C7_DailyNeverBlocks ==
    status.op = "status" =>
        \A dc \in ScopeCosts, db \in TrackerDailyBudgets :
            LET other == check_budget_status(
                             [status.summary EXCEPT !.today =
                                 [cost |-> dc, budget |-> db, remaining |-> Max(0, db - dc)]],
                             status.tip_hash)
            IN  /\ other.should_continue = status.should_continue
                /\ other.session = status.session

C7_Witness ==
    /\ status.op = "status"
    /\ status.daily \in {"CRITICAL", "EXCEEDED"}
    /\ status.session \in {"LOW", "MODERATE"}
    /\ status.summary.current_session.cost > 0
    /\ status.should_continue

\* C8: for each scope independently the reported state is EXCEEDED if ratio >= 1.0,
\* else CRITICAL if ratio >= 0.9, else WARNING if ratio >= 0.7, else MODERATE if
\* ratio >= 0.3, else LOW, where ratio = cost/limit, and 0 (LOW) when limit <= 0.
C8_UsageBands ==
    status.op = "status" =>
        /\ status.session = Band(status.summary.current_session.cost,
                                 status.summary.current_session.budget)
        /\ status.daily = Band(status.summary.today.cost, status.summary.today.budget)

C8_Witness ==
    /\ status.op = "status"
    /\ status.session = "CRITICAL"
    /\ 10 * status.summary.current_session.cost = 9 * status.summary.current_session.budget
    /\ status.summary.today.budget <= 0
    /\ status.summary.today.cost > 0
    /\ status.daily = "LOW"

\* the sum of the costs of the history entries that satisfy Keep
RECURSIVE LedgerSum(_)
LedgerSum(entries) ==
    IF entries = <<>> THEN 0 ELSE Head(entries).cost + LedgerSum(Tail(entries))

OwnEntry(x) == x.own

\* C9: after any sequence of track_api_call operations on a tracker, session_cost
\* for the current session equals the sum of the costs of exactly the events those
\* operations recorded (0 when there are none), and it never decreases as
\* further events are appended.
C9_SessionCostIsSum ==
    /\ [](get_session_cost(events, current_session_id) = LedgerSum(SelectSeq(tracked, OwnEntry)))
    /\ [][get_session_cost(events', current_session_id')
            >= get_session_cost(events, current_session_id)]_vars

C9_Witness ==
    /\ Len(tracked) >= 3
    /\ ~tracked[1].own
    /\ tracked[1].cost > 0
    /\ tracked[2].own /\ tracked[2].cost > 0
    /\ tracked[3].own /\ tracked[3].cost > 0

\* the sum of the costs of the events written at a tick of the day that contains d
DayLedgerSum(d) ==
    LET InDay(x) == StartOfDay(d) <= x.time /\ x.time < StartOfDay(d) + TicksPerDay
    IN  LedgerSum(SelectSeq(tracked, InDay))

\* C10: daily_cost(date) equals the sum of the costs of exactly those events whose
\* timestamp t satisfies start_of_day <= t < start_of_day + 1 day (events of every
\* session included, events at exactly the next midnight excluded), and for a
\* fixed day it never decreases as events are appended.
C10_DailyCostIsDaySum ==
    /\ [](\A d \in 0..MaxTime : get_daily_cost(events, d) = DayLedgerSum(d))
    /\ [][\A d \in 0..MaxTime : get_daily_cost(events', d) >= get_daily_cost(events, d)]_vars

C10_Witness ==
    /\ Len(tracked) >= 3
    /\ ~tracked[1].own /\ tracked[1].cost > 0 /\ tracked[1].time < TicksPerDay
    /\ tracked[2].own /\ tracked[2].cost > 0 /\ tracked[2].time < TicksPerDay
    /\ tracked[3].cost > 0 /\ tracked[3].time = TicksPerDay
    /\ get_daily_cost(events, 0) = tracked[1].cost + tracked[2].cost

-----------------------------------------------------------------------------
(* The query cache in operation, on a database that may hold an entry an      *)
(* earlier process stored and reused                                          *)

CacheAgents == {"A", "A:b"}
CacheQueries == {"q", " Q ", "b:q"}
\* what a caller stores: the response text, its token counts and its cost
CacheResults ==
    { [response |-> "r", input_tokens |-> 1, output_tokens |-> 1,
       cost |-> calculate_cost(GatewayModel, 1, 1)],
      [response |-> "s", input_tokens |-> 2, output_tokens |-> 1,
       cost |-> calculate_cost(GatewayModel, 2, 1)] }

\* the entry of an earlier process: stored one tick before the model starts and
\* served twice since
PriorEntry ==
    LET stored == cache_response(<<>>, "q", "r", "A", 1, 1, calculate_cost(GatewayModel, 1, 1),
                                 0 - 1, "ok").cache
    IN  CountHit(CountHit(stored, "A:q", "A"), "A:q", "A")

PriorCache == { <<>>, PriorEntry }

\* the history of a table: for every key, the last committed store and the
\* number of lookups served from it
CacheLedger(ca) ==
    [h \in {ca[i].query_hash : i \in 1..Len(ca)} |->
        LET row == ca[CHOOSE i \in 1..Len(ca) : ca[i].query_hash = h]
        IN  [time       |-> 0 - 1,
             agent_name |-> row.agent_name,
             response   |-> row.response,
             cost       |-> row.cost_saved,
             hits       |-> row.hit_count - 1]]

InitCache ==
    /\ now = 0
    /\ events = <<>>
    /\ cache \in PriorCache
    /\ tracked = CacheLedger(cache)
    /\ current_session_id = 0
    /\ session_budget \in GatewaySessionBudgets
    /\ daily_budget \in GatewayDailyBudgets
    /\ current_agent = "Unknown"
    /\ current_task = "Unknown Task"
    /\ status = NoStatus
    /\ last = NoCall
    /\ calls = 0

\* QueryCache.get_cached_response, called directly
Lookup(query, agent_name) ==
    /\ calls < MaxCalls
    /\ calls' = calls + 1
    /\ \E lk \in {get_cached_response(cache, query, agent_name, now)},
          h \in {_generate_query_hash(query, agent_name)} :
          /\ cache' = lk.cache
          /\ tracked' = IF lk.found /\ h \in DOMAIN tracked
                        THEN [tracked EXCEPT ![h].hits = @ + 1]
                        ELSE tracked
          /\ last' = [op |-> "lookup", query |-> query, agent_name |-> agent_name,
                      query_hash |-> h, time |-> now,
                      found |-> lk.found, response |-> lk.response]
    /\ UNCHANGED <<now, events, current_session_id, session_budget, daily_budget,
                   current_agent, current_task, status>>

\* QueryCache.cache_response, called directly
Store(query, agent_name, res, fault) ==
    /\ calls < MaxCalls
    /\ calls' = calls + 1
    /\ \E st \in {cache_response(cache, query, res.response, agent_name, res.input_tokens,
                                 res.output_tokens, res.cost, now, fault)},
          h \in {_generate_query_hash(query, agent_name)} :
          LET Held(row) == row.query_hash = h
          IN  /\ cache' = st.cache
              /\ tracked' = IF fault = "ok"
                            THEN [k \in DOMAIN tracked \cup {h} |->
                                    IF k = h
                                    THEN [time |-> now, agent_name |-> agent_name,
                                          response |-> res.response, cost |-> res.cost,
                                          hits |-> 0]
                                    ELSE tracked[k]]
                            ELSE tracked
              /\ last' = [op |-> "store", query |-> query, agent_name |-> agent_name,
                          query_hash |-> h, time |-> now, res |-> res,
                          committed |-> fault = "ok", raised |-> st.raised,
                          replaced |-> SelectSeq(cache, Held)]
    /\ UNCHANGED <<now, events, current_session_id, session_budget, daily_budget,
                   current_agent, current_task, status>>

\* QueryCache.cleanup_expired_cache
Cleanup ==
    /\ calls < MaxCalls
    /\ calls' = calls + 1
    /\ \E cl \in {cleanup_expired_cache(cache, now)} :
          /\ cache' = cl.cache
          /\ last' = [op |-> "cleanup", time |-> now, deleted |-> cl.deleted,
                      before |-> cache]
    /\ UNCHANGED <<now, events, current_session_id, session_budget, daily_budget,
                   current_agent, current_task, tracked, status>>

NextCache ==
    \/ Tick
    \/ \E q \in CacheQueries, a \in CacheAgents : Lookup(q, a)
    \/ \E q \in CacheQueries, a \in CacheAgents, res \in CacheResults, fault \in StoreFaults :
          Store(q, a, res, fault)
    \/ Cleanup

SpecCache == InitCache /\ [][NextCache]_vars

-----------------------------------------------------------------------------
(* Claims about the query cache, checked under SpecCache *)

\* the value a lookup of (query, agent_name) returns from table ca at tick t
Served(ca, query, agent_name, t) ==
    LET lk == get_cached_response(ca, query, agent_name, t)
    IN  [found |-> lk.found, response |-> lk.response]

\* the rows of table ca that hold key h
RowsOf(ca, h) ==
    LET Held(row) == row.query_hash = h
    IN  SelectSeq(ca, Held)

\* C11: a lookup of an (actor, text) whose key was never stored returns absent; a
\* committed store followed immediately by a lookup of the same (actor, text)
\* returns exactly the stored response; every lookup that hits adds exactly 1 to
\* the hit_count of its entry and changes nothing else, so after k hits on a
\* stored entry its hit_count is 1 + k.
C11_StoreLookupHitCount ==
    /\ [](\A q \in CacheQueries, a \in CacheAgents :
            _generate_query_hash(q, a) \notin DOMAIN tracked
                => ~Served(cache, q, a, now).found)
    /\ [](\A i \in 1..Len(cache) :
            cache[i].hit_count = 1 + tracked[cache[i].query_hash].hits)
    /\ [][(calls' = calls + 1 /\ last'.op = "store" /\ last'.committed)
            => Served(cache', last'.query, last'.agent_name, now')
                 = [found |-> TRUE, response |-> last'.res.response]]_vars
    /\ [][(calls' = calls + 1 /\ last'.op = "lookup" /\ last'.found)
            => /\ Len(RowsOf(cache, last'.query_hash)) = 1
               /\ cache' = CountHit(cache, last'.query_hash, last'.agent_name)
               /\ RowsOf(cache', last'.query_hash)[1].hit_count
                    = RowsOf(cache, last'.query_hash)[1].hit_count + 1]_vars

\* a further hit on an entry that was served before: its hit_count follows
C11_Witness ==
    /\ last.op = "lookup"
    /\ last.found
    /\ tracked[last.query_hash].hits >= 3
    /\ RowsOf(cache, last.query_hash)[1].hit_count = 1 + tracked[last.query_hash].hits

\* C12: the entry stored on a key at tick T0 is returned by every lookup of its
\* (actor, text) before T0 + CacheDurationTicks and is absent from T0 +
\* CacheDurationTicks on, however many hits it served in between: a hit never
\* extends the lifetime of an entry.
C12_ExpiryIsFixed ==
    \A q \in CacheQueries, a \in CacheAgents :
        LET h == _generate_query_hash(q, a)
        IN  (h \in DOMAIN tracked /\ tracked[h].agent_name = a) =>
                Served(cache, q, a, now) =
                    IF now < tracked[h].time + CacheDurationTicks
                    THEN [found |-> TRUE, response |-> tracked[h].response]
                    ELSE [found |-> FALSE, response |-> ""]

\* an entry that was hit in this run and is found absent at exactly its horizon
C12_Witness ==
    /\ last.op = "lookup"
    /\ ~last.found
    /\ last.query_hash \in DOMAIN tracked
    /\ tracked[last.query_hash].agent_name = last.agent_name
    /\ tracked[last.query_hash].hits >= 3
    /\ last.time = tracked[last.query_hash].time + CacheDurationTicks

\* C13: pairs with different actors never share a fingerprint: a store by one
\* actor leaves what every lookup by a different actor returns unchanged, and a
\* lookup never returns a response that a different actor stored.
C13_ActorsNeverCollide ==
    /\ [][(calls' = calls + 1 /\ last'.op = "store")
            => \A q \in CacheQueries, b \in CacheAgents \ {last'.agent_name} :
                  Served(cache', q, b, now') = Served(cache, q, b, now)]_vars
    /\ [][(calls' = calls + 1 /\ last'.op = "lookup" /\ last'.found)
            => tracked[last'.query_hash].agent_name = last'.agent_name]_vars

\* the rows of table ca that actor agent_name stored under a text that
\* normalizes (trim, then lowercase) as query does
SameRequest(ca, query, agent_name) ==
    LET Same(row) == /\ row.agent_name = agent_name
                     /\ Lower(Strip(row.query_text)) = Lower(Strip(query))
    IN  SelectSeq(ca, Same)

\* C14: under one actor, two request texts that are equal after trimming and
\* lowercasing resolve to the same entry: every lookup returns the same under
\* either text, a committed store under one is returned by a lookup under the
\* other, and it replaces the entry stored under the other instead of adding a
\* second one.
C14_NormalizedTextsShareEntry ==
    /\ [](\A a \in CacheAgents, q1 \in CacheQueries, q2 \in CacheQueries :
            Lower(Strip(q1)) = Lower(Strip(q2))
                => Served(cache, q1, a, now) = Served(cache, q2, a, now))
    /\ [][(calls' = calls + 1 /\ last'.op = "store" /\ last'.committed)
            => /\ \A q2 \in CacheQueries :
                    Lower(Strip(q2)) = Lower(Strip(last'.query))
                        => Served(cache', q2, last'.agent_name, now')
                             = [found |-> TRUE, response |-> last'.res.response]
               /\ Len(SameRequest(cache', last'.query, last'.agent_name)) = 1]_vars

\* a store under one spelling replaced the entry stored under the other, with a
\* different response
C14_Witness ==
    /\ last.op = "store"
    /\ last.committed
    /\ last.replaced # <<>>
    /\ last.replaced[1].agent_name = last.agent_name
    /\ last.replaced[1].query_text # last.query
    /\ last.replaced[1].response # last.res.response
    /\ Len(cache) = 1

\* C15: after any sequence of store, lookup and cleanup operations the table
\* holds at most one row per fingerprint.
C15_OneEntryPerFingerprint ==
    \A i \in 1..Len(cache), j \in 1..Len(cache) :
        cache[i].query_hash = cache[j].query_hash => i = j

\* a store on a key the table already held, next to an entry of another key
C15_Witness ==
    /\ last.op = "store"
    /\ last.committed
    /\ last.replaced # <<>>
    /\ Len(cache) = 2

\* C16: a committed store on a key that already has an entry replaces it in full:
\* the one row of the key then holds the response, token counts, cost and
\* timestamp of the new store, it is served for a full cache duration from the
\* new store on, and its hit_count is 1 whatever it was before.
C16_RestoreReplaces ==
    [][(calls' = calls + 1 /\ last'.op = "store" /\ last'.committed
          /\ RowsOf(cache, last'.query_hash) # <<>>)
        => LET new == RowsOf(cache', last'.query_hash)
           IN  /\ Len(new) = 1
               /\ new[1].response = last'.res.response
               /\ new[1].input_tokens = last'.res.input_tokens
               /\ new[1].output_tokens = last'.res.output_tokens
               /\ new[1].cost_saved = last'.res.cost
               /\ new[1].timestamp = IsoFormat(now')
               /\ new[1].hit_count = 1
               /\ \A d \in 0..(2 * CacheDurationTicks) :
                    Served(cache', last'.query, last'.agent_name, now' + d).found
                        <=> d < CacheDurationTicks]_vars

\* a store replaced an entry that had been served, with another response and at
\* a later tick
C16_Witness ==
    /\ last.op = "store"
    /\ last.committed
    /\ last.replaced # <<>>
    /\ last.replaced[1].hit_count > 1
    /\ last.replaced[1].response # last.res.response
    /\ last.replaced[1].cost_saved # last.res.cost
    /\ last.replaced[1].timestamp # IsoFormat(last.time)
    /\ RowsOf(cache, last.query_hash)[1].hit_count = 1

\* the savings of the reuses: (hit_count - 1) x cost_saved, summed over the rows
RECURSIVE ReuseSaved(_)
ReuseSaved(rows) ==
    IF rows = <<>> THEN 0
    ELSE (Head(rows).hit_count - 1) * Head(rows).cost_saved + ReuseSaved(Tail(rows))

\* C17: total_cost_saved of the cache statistics is the sum over all entries of
\* (hit_count - 1) x cost_saved: an entry that was stored and never hit adds 0.
C17_TotalSavedCountsReuses ==
    get_cache_stats(cache, now).total_cost_saved = ReuseSaved(cache)

\* C18: one entry stored once with cost c and hit 3 times gives
\* total_cost_saved = 2 x c.
C18_ThreeHitsSaveTwice ==
    (Len(cache) = 1 /\ tracked[cache[1].query_hash].hits = 3)
        => get_cache_stats(cache, now).total_cost_saved = 2 * cache[1].cost_saved

\* the sum of the 'saved' amounts of the per-actor statistics
RECURSIVE SumSavedOf(_, _)
SumSavedOf(agent_stats, agents) ==
    IF agents = {} THEN 0
    ELSE LET a == CHOOSE x \in agents : TRUE
         IN  agent_stats[a].saved + SumSavedOf(agent_stats, agents \ {a})

\* the lookups served from the current entries of an actor, from the history
RECURSIVE ServedLookups(_, _)
ServedLookups(rows, agent_name) ==
    IF rows = <<>> THEN 0
    ELSE (IF Head(rows).agent_name = agent_name THEN tracked[Head(rows).query_hash].hits ELSE 0)
            + ServedLookups(Tail(rows), agent_name)

\* the per-actor hits count the lookups served from the actor's current entries
ActorHitsCountLookups ==
    LET st == get_cache_stats(cache, now)
    IN  \A a \in CacheAgents :
           ServedLookups(cache, a)
               = (IF a \in DOMAIN st.agent_stats THEN st.agent_stats[a].hits ELSE 0)

\* C39: in the cache statistics total_cost_saved equals the sum of the per-actor
\* 'saved' amounts, and the 'hits' of an actor is the number of successful
\* lookups served from the current entries of that actor.
C39_StatsAgree ==
    /\ LET st == get_cache_stats(cache, now)
       IN  st.total_cost_saved = SumSavedOf(st.agent_stats, DOMAIN st.agent_stats)
    /\ ActorHitsCountLookups

\* the age in ticks of the entry a row holds, from the history of its key
Age(row, t) == t - tracked[row.query_hash].time

\* C19: cleanup deletes exactly the entries whose age exceeds the cache duration
\* and returns how many it deleted, and it is housekeeping only: in every state,
\* every lookup returns the same whether or not a cleanup ran immediately before
\* it.
C19_CleanupIsHousekeeping ==
    /\ [](\A q \in CacheQueries, a \in CacheAgents :
            Served(cleanup_expired_cache(cache, now).cache, q, a, now)
                = Served(cache, q, a, now))
    /\ [][(calls' = calls + 1 /\ last'.op = "cleanup")
            => LET Fresh(row) == Age(row, now) <= CacheDurationTicks
               IN  /\ cache' = SelectSeq(cache, Fresh)
                   /\ last'.deleted = Len(cache) - Len(SelectSeq(cache, Fresh))]_vars

\* a cleanup deleted an entry and kept one that is exactly as old as the cache
\* duration, which no lookup serves any more
C19_Witness ==
    /\ last.op = "cleanup"
    /\ last.deleted >= 1
    /\ \E i \in 1..Len(cache) :
          /\ Age(cache[i], last.time) = CacheDurationTicks
          /\ ~Served(cache, cache[i].query_text, cache[i].agent_name, last.time).found

-----------------------------------------------------------------------------
(* Claims about the gateway and its cache, checked under Spec *)

\* C20: when a gateway call missed the cache, returned and stored its outcome,
\* the next gateway call of the same actor with the same request inside the
\* cache duration hits the cache and does not dispatch the external call,
\* whether or not the optimizer changed the payload of the first call.
C20_RepeatedRequestHits ==
    (/\ last.op = "call"
     /\ last.prev.op = "call"
     /\ last.prev.lookup = "miss"
     /\ last.prev.outcome = "returned"
     /\ last.prev.stored
     /\ last.prev.agent_name = last.agent_name
     /\ last.prev.input_text = last.input_text
     /\ last.time < last.prev.time + CacheDurationTicks
     /\ last.lookup # "error")
        => /\ last.lookup = "hit"
           /\ ~last.dispatched

\* C21: a gateway call that misses the cache and returns went through its stages
\* in the order budget check, compaction, dispatch, usage parsing, pricing,
\* UsageEvent record, cache store, return: the budget check lies between the
\* cache check and the dispatch, and the UsageEvent is appended before the cache
\* entry is written.
C21_StageOrder ==
    (last.op = "call" /\ last.lookup = "miss" /\ last.outcome = "returned") =>
        last.stages = <<"CACHE_CHECK", "BUDGET_CHECK", "COMPACT", "DISPATCH", "PARSE_USAGE",
                        "PRICE", "RECORD", "CACHE_STORE", "RETURN">>

-----------------------------------------------------------------------------
(* One process lifetime: the global tracker, which initialize_cost_tracking   *)
(* replaces every time a Config is constructed                                *)

InitProcess ==
    /\ now = 0
    /\ events = <<>>
    /\ tracked = <<>>
    /\ cache = EmptyCache
    /\ current_session_id = 0
    /\ session_budget \in TrackerSessionBudgets
    /\ daily_budget \in TrackerDailyBudgets
    /\ current_agent = "Unknown"
    /\ current_task = "Unknown Task"
    /\ status = NoStatus
    /\ last = NoCall
    /\ calls = 0

\* initialize_cost_tracking: the budgets go to the environment and a new
\* CostTracker, with the session id of the current time, becomes the global one
initialize_cost_tracking(daily, session) ==
    /\ current_session_id' = now
    /\ daily_budget' = daily
    /\ session_budget' = session
    /\ UNCHANGED <<now, events, cache, current_agent, current_task, tracked, status,
                   last, calls>>

NextProcess ==
    \/ Tick
    \/ \E a \in TrackerAgents, m \in TrackerModels, i \in InputTokenCounts,
          o \in OutputTokenCounts, fault \in RecordFaults : TrackApiCall(a, m, i, o, fault)
    \/ \E d \in TrackerDailyBudgets, s \in TrackerSessionBudgets :
          initialize_cost_tracking(d, s)

SpecProcess == InitProcess /\ [][NextProcess]_vars

\* C22: all UsageEvents recorded within one process lifetime carry the same
\* session identifier, also after initialize_cost_tracking ran again, so the
\* session cost that the budget gate reads never goes down inside a process.
C22_OneSessionPerProcess ==
    /\ [](\A i \in 1..Len(events), j \in 1..Len(events) :
            events[i].session_id = events[j].session_id)
    /\ [][get_session_cost(events', current_session_id')
            >= get_session_cost(events, current_session_id)]_vars

-----------------------------------------------------------------------------
(* The pricing function in operation: calculate_cost on the shipped table and *)
(* on replacement tables, and track_api_call with models of every kind        *)

PricingModels == DOMAIN MODEL_PRICING \cup {"unknown/model"}
PriceInputTokens == {0, 1, 2, 3, 500, 1000}
PriceOutputTokens == {0, 1, 2, 500}
\* rates in micro-dollars per 1000 tokens: 3.0 and 15.0 dollars per 1000 tokens,
\* and rates below one micro-dollar per token, where the rounding shows
ScenarioPricing == [input_per_1k |-> 3000000, output_per_1k |-> 15000000]
FinePricing == [input_per_1k |-> 400, output_per_1k |-> 1400]
PricingRows == {ScenarioPricing, FinePricing}

InitPricing ==
    /\ now = 0
    /\ events = <<>>
    /\ tracked = <<>>
    /\ cache = EmptyCache
    /\ current_session_id = 0
    /\ session_budget \in GatewaySessionBudgets
    /\ daily_budget \in GatewayDailyBudgets
    /\ current_agent = "Unknown"
    /\ current_task = "Unknown Task"
    /\ status = NoStatus
    /\ last = NoCall
    /\ calls = 0

\* CostTracker.calculate_cost on MODEL_PRICING as shipped
CalculateCost(model, input_tokens, output_tokens) ==
    /\ last' = [op |-> "calculate_cost", model |-> model,
                pricing |-> MODEL_PRICING[IF model \in DOMAIN MODEL_PRICING
                                          THEN model ELSE DefaultModel],
                input_tokens |-> input_tokens, output_tokens |-> output_tokens,
                cost |-> calculate_cost(model, input_tokens, output_tokens)]
    /\ UNCHANGED <<now, events, cache, current_session_id, session_budget, daily_budget,
                   current_agent, current_task, tracked, status, calls>>

\* CostTracker.calculate_cost for a model whose row of the table is pricing
CalculateCostWith(pricing, input_tokens, output_tokens) ==
    /\ last' = [op |-> "calculate_cost", model |-> "scenario/model", pricing |-> pricing,
                input_tokens |-> input_tokens, output_tokens |-> output_tokens,
                cost |-> Price(pricing, input_tokens, output_tokens)]
    /\ UNCHANGED <<now, events, cache, current_session_id, session_budget, daily_budget,
                   current_agent, current_task, tracked, status, calls>>

\* CostTracker.track_api_call with the model the caller names
TrackModelCall(model, input_tokens, output_tokens, fault) ==
    /\ calls < MaxCalls
    /\ calls' = calls + 1
    /\ \E tr \in {track_api_call(events, now, current_session_id, "Test Agent", model,
                                 input_tokens, output_tokens, "", fault)} :
          /\ events' = tr.events
          /\ last' = [op |-> "track_api_call", model |-> model,
                      input_tokens |-> input_tokens, output_tokens |-> output_tokens,
                      raised |-> tr.raised,
                      added |-> SubSeq(tr.events, Len(events) + 1, Len(tr.events))]
    /\ UNCHANGED <<now, cache, current_session_id, session_budget, daily_budget,
                   current_agent, current_task, tracked, status>>

NextPricing ==
    \/ \E m \in PricingModels, i \in PriceInputTokens, o \in PriceOutputTokens :
          CalculateCost(m, i, o)
    \/ \E row \in PricingRows, i \in PriceInputTokens, o \in PriceOutputTokens :
          CalculateCostWith(row, i, o)
    \/ \E m \in PricingModels, fault \in RecordFaults : TrackModelCall(m, 2, 1, fault)

SpecPricing == InitPricing /\ [][NextPricing]_vars

\* C23: for every model and all token counts in, out >= 0 the price of (0, 0) is
\* 0, and the price, rounding included, does not go down when the input count or
\* the output count goes up.
C23_PriceMonotone ==
    /\ \A m \in PricingModels : calculate_cost(m, 0, 0) = 0
    /\ \A row \in PricingRows : Price(row, 0, 0) = 0
    /\ last.op = "calculate_cost" =>
          \A i \in PriceInputTokens, o \in PriceOutputTokens :
              (i <= last.input_tokens /\ o <= last.output_tokens)
                  => Price(last.pricing, i, o) <= last.cost

\* a price that rounding moved, above the price of fewer tokens
C23_Witness ==
    /\ last.op = "calculate_cost"
    /\ last.pricing = FinePricing
    /\ last.input_tokens = 3
    /\ last.output_tokens = 1
    /\ last.cost = 3
    /\ Price(last.pricing, 2, 1) < last.cost

\* C24: the price is in/1000 x input rate + out/1000 x output rate rounded to 6
\* decimal digits, that is to the nearest micro-dollar; with the rates 3.0 and
\* 15.0 per 1000 tokens the price of (1000, 500) is 10.5.
C24_PriceFormula ==
    last.op = "calculate_cost" =>
        /\ LET exact == Thousandths(last.pricing, last.input_tokens, last.output_tokens)
               off   == 1000 * (last.cost - exact[1]) - exact[2]
           IN  -500 <= off /\ off <= 500
        /\ (last.pricing = ScenarioPricing /\ last.input_tokens = 1000
              /\ last.output_tokens = 500) => last.cost = 10500000

\* the scenario: 1000 input and 500 output tokens at 3.0 and 15.0 per 1000
C24_Witness ==
    /\ last.op = "calculate_cost"
    /\ last.pricing = ScenarioPricing
    /\ last.input_tokens = 1000
    /\ last.output_tokens = 500
    /\ last.cost = 10500000

\* C25: for a model that is not in the pricing table the price never fails and is
\* exactly the price of the default model for the same token counts, and the
\* UsageEvent that track_api_call records carries the model the caller named.
C25_UnknownModelFallsBack ==
    /\ (last.op = "calculate_cost" /\ last.model = "unknown/model") =>
          last.cost = Price(MODEL_PRICING[DefaultModel], last.input_tokens, last.output_tokens)
    /\ (last.op = "track_api_call" /\ last.added # <<>>) =>
          /\ Len(last.added) = 1
          /\ last.added[1].model = last.model
          /\ last.added[1].cost_usd
               = Price(MODEL_PRICING[DefaultModel], last.input_tokens, last.output_tokens)

\* an event recorded for a model the table does not know, at the default price
C25_Witness ==
    /\ last.op = "track_api_call"
    /\ last.model \notin DOMAIN MODEL_PRICING
    /\ Len(last.added) = 1
    /\ last.added[1].model = "unknown/model"
    /\ last.added[1].cost_usd = 21
    /\ events[Len(events)] = last.added[1]


-----------------------------------------------------------------------------
(* The prompt optimizer on its own: SpecOptimizer                          *)
(*                                                                         *)
(* optimize_prompt is applied to texts assembled from the phrases its      *)
(* rules look for, under each kind of agent context, and then to the text  *)
(* it returned; calls counts the passes over the one text a behaviour      *)
(* follows.                                                                *)

OptimizerContexts == {"", "Research Coordinator", "Literature Searcher", "Paper Analyzer"}

OptimizerPhrases ==
    {"", "q", "comprehensive and detailed", " and detailed", "detailed analysis",
     "comprehensive review", "find all possible", "exhaustive search",
     "list everything", "it is important to ", "please make sure to ",
     "- For example: x", "\n"}

OptimizerPrompts == {a \o b : a \in OptimizerPhrases, b \in OptimizerPhrases}

InitOptimizer == InitPricing

\* PromptOptimizer.optimize_prompt(prompt, agent_context)
OptimizePrompt(prompt, agent_context) ==
    /\ calls = 0
    /\ calls' = 1
    /\ \E r \in {optimize_prompt(prompt, agent_context)} :
          last' = [op |-> "optimize_prompt", prompt |-> prompt,
                   agent_context |-> agent_context, text |-> r.text,
                   tokens_saved |-> r.tokens_saved]
    /\ UNCHANGED <<now, events, cache, current_session_id, session_budget, daily_budget,
                   current_agent, current_task, tracked, status>>

\* optimize_prompt applied to the text the previous call returned, same context
OptimizeAgain ==
    /\ last.op = "optimize_prompt"
    /\ calls < MaxCalls
    /\ calls' = calls + 1
    /\ \E r \in {optimize_prompt(last.text, last.agent_context)} :
          last' = [op |-> "optimize_prompt", prompt |-> last.text,
                   agent_context |-> last.agent_context, text |-> r.text,
                   tokens_saved |-> r.tokens_saved]
    /\ UNCHANGED <<now, events, cache, current_session_id, session_budget, daily_budget,
                   current_agent, current_task, tracked, status>>

NextOptimizer ==
    \/ \E prompt \in OptimizerPrompts, agent_context \in OptimizerContexts :
          OptimizePrompt(prompt, agent_context)
    \/ OptimizeAgain

SpecOptimizer == InitOptimizer /\ [][NextOptimizer]_vars

\* C26: compact is idempotent: applied to a text it has already compacted, under
\* the same context label, it returns the text unchanged and saves 0 units.
C26_CompactIdempotent ==
    (last.op = "optimize_prompt" /\ calls > 1) =>
        /\ last.text = last.prompt
        /\ last.tokens_saved = 0

\* C27: the compacted text is never longer than the original, whatever the
\* context label, and the units saved are max(0, (len(original) - len(compacted))
\* / 4), never negative.
C27_CompactShrinks ==
    last.op = "optimize_prompt" =>
        /\ Len(last.text) <= Len(last.prompt)
        /\ last.tokens_saved = Max(0, (Len(last.prompt) - Len(last.text)) \div 4)
        /\ last.tokens_saved >= 0


-----------------------------------------------------------------------------
(* The read-only queries in one running process: SpecQueries               *)
(*                                                                         *)
(* The budget status, the cache statistics and the cost summary are asked  *)
(* between records, stores, lookups and clock ticks.  last keeps what the  *)
(* queries returned since the last other operation or tick; status keeps   *)
(* the last budget status with the value hash() gave for the date, which   *)
(* is fixed for a given string as long as the process runs.                *)

QuerySessionBudgets == {20, 40}
QueryDailyBudgets == {40}

InitQueries ==
    /\ now = 1
    /\ events \in PriorEvents
    /\ cache \in PriorCache
    /\ tracked = CacheLedger(cache)
    /\ current_session_id = 1
    /\ session_budget \in QuerySessionBudgets
    /\ daily_budget \in QueryDailyBudgets
    /\ current_agent = "Unknown"
    /\ current_task = "Unknown Task"
    /\ status = NoStatus
    /\ last = NoCall
    /\ calls = 0

\* the answers since the last other operation or tick, with the new one added
QueryLog(c, t, name, value) ==
    IF c.op = "query" /\ c.time = t
    THEN [c EXCEPT !.results = (name :> [value |-> value, repeated |-> name \in DOMAIN @])
                                   @@ @]
    ELSE [op |-> "query", time |-> t,
          results |-> (name :> [value |-> value, repeated |-> FALSE])]

\* check_budget_status with a hash value drawn afresh at every call
QueryBudgetStatus_FreshHash(tip_hash) ==
    /\ \E summary \in {get_cost_summary(events, now, current_session_id,
                                        session_budget, daily_budget)} :
       \E r \in {check_budget_status(summary, tip_hash)} :
          /\ status' = [op |-> "status", summary |-> summary, tip_hash |-> tip_hash,
                        date |-> IsoFormat(now)[1]] @@ r
          /\ last' = QueryLog(last, now, "check_budget_status", r)
    /\ UNCHANGED <<now, events, cache, current_session_id, session_budget, daily_budget,
                   current_agent, current_task, tracked, calls>>

\* CostBudgetManager.check_budget_status; tip_hash is hash(str(date)), the same
\* for the same date at every call of the process
QueryBudgetStatus(tip_hash) ==
    /\ (status.op = "status" /\ status.date = IsoFormat(now)[1]) => tip_hash = status.tip_hash
    /\ \E summary \in {get_cost_summary(events, now, current_session_id,
                                        session_budget, daily_budget)} :
       \E r \in {check_budget_status(summary, tip_hash)} :
          /\ status' = [op |-> "status", summary |-> summary, tip_hash |-> tip_hash,
                        date |-> IsoFormat(now)[1]] @@ r
          /\ last' = QueryLog(last, now, "check_budget_status", r)
    /\ UNCHANGED <<now, events, cache, current_session_id, session_budget, daily_budget,
                   current_agent, current_task, tracked, calls>>

\* QueryCache.get_cache_stats
QueryCacheStats ==
    /\ last' = QueryLog(last, now, "get_cache_stats", get_cache_stats(cache, now))
    /\ UNCHANGED <<now, events, cache, current_session_id, session_budget, daily_budget,
                   current_agent, current_task, tracked, status, calls>>

\* CostTracker.get_cost_summary
QueryCostSummary ==
    /\ last' = QueryLog(last, now, "get_cost_summary",
                        get_cost_summary(events, now, current_session_id,
                                         session_budget, daily_budget))
    /\ UNCHANGED <<now, events, cache, current_session_id, session_budget, daily_budget,
                   current_agent, current_task, tracked, status, calls>>

NextQueries ==
    \/ Tick
    \/ \E m \in TrackerModels, fault \in RecordFaults : TrackModelCall(m, 2, 1, fault)
    \/ Lookup("q", "A")
    \/ \E res \in CacheResults : Store("q", "A", res, "ok")
    \/ \E h \in TipHashes : QueryBudgetStatus(h)
    \/ QueryCacheStats
    \/ QueryCostSummary

SpecQueries == InitQueries /\ [][NextQueries]_vars

\* C28: the budget status, cache statistics and cost summary queries change no
\* UsageEvent and no cache entry (hit_count and timestamp included), and a query
\* repeated with no record, store, lookup or clock change in between returns a
\* result equal to the one it returned before.
C28_QueriesReadOnly ==
    [][ last'.op = "query" =>
          /\ events' = events
          /\ cache' = cache
          /\ (last.op = "query" /\ last.time = last'.time) =>
                \A name \in DOMAIN last.results \cap DOMAIN last'.results :
                    last'.results[name].value = last.results[name].value ]_vars

\* all three queries repeated over a store that holds an event and a cache entry
\* with hits, the budget status carrying the tip chosen by the hash of the date
C28_Witness ==
    /\ last.op = "query"
    /\ DOMAIN last.results = {"check_budget_status", "get_cache_stats", "get_cost_summary"}
    /\ \A name \in DOMAIN last.results : last.results[name].repeated
    /\ last.results["check_budget_status"].value.recommendations
          = << optimization_tips[(status.tip_hash % Len(optimization_tips)) + 1] >>
    /\ last.results["get_cache_stats"].value.total_entries = 1
    /\ last.results["get_cost_summary"].value.current_session.cost > 0
    /\ events # <<>>
    /\ \E i \in 1..Len(cache) : cache[i].hit_count >= 3


\* C29: the UsageEvent store is append-only: no step of the gateway, with the
\* lookups, stores and records it makes, modifies or deletes a recorded event;
\* the events before a step are a prefix of the events after it.
C29_EventsAppendOnly ==
    [][ /\ Len(events') >= Len(events)
        /\ SubSeq(events', 1, Len(events)) = events ]_vars

\* a call has added its event behind one recorded by an earlier call
C29_Witness ==
    /\ last.op = "call"
    /\ Len(last.added) = 1
    /\ Len(events) >= 2
    /\ events[Len(events)] = last.added[1]
    /\ last.prev.op = "call"

-----------------------------------------------------------------------------
(* Usage parsing on its own: SpecParse                                     *)
(*                                                                         *)
(* The counts to price are computed for responses of every described       *)
(* shape; each place reports counts of its own so that the answer tells    *)
(* which strategy gave it.                                                 *)

\* the values a place can hold when its counts are first and second
Places(first, second) ==
    { Absent, Place("other", None, None),
      Place("input_output", first, second), Place("prompt_completion", first, second),
      Place("input_output", None, None), Place("input_output", first, None) }

\* an object has attributes and is no dict; a dict has no attributes
ResponseShapes ==
    { r \in [usage       : Places(2, 1),
             token_usage : Places(3, 1),
             dict_usage  : Places(4, 1) \cup {Place("null", None, None)},
             repr        : {Absent, Place("input_output", 5, 2)}] :
        r.dict_usage # Absent => (r.usage = Absent /\ r.token_usage = Absent) }

ParseTexts == {"", "r"}
ParseEstimates == {0, 6}

InitParse == InitPricing

\* lines 196-212 of TrackedLLM.call on one response
ParseUsage(response, text, estimated_input_tokens) ==
    /\ last' = [op |-> "parse_usage", response |-> response, text |-> text,
                estimated_input_tokens |-> estimated_input_tokens,
                actual |-> _parse_response_usage(response),
                priced |-> UsageForPricing(response, text, estimated_input_tokens)]
    /\ UNCHANGED <<now, events, cache, current_session_id, session_budget, daily_budget,
                   current_agent, current_task, tracked, status, calls>>

NextParse ==
    \E response \in ResponseShapes, text \in ParseTexts, e \in ParseEstimates :
        ParseUsage(response, text, e)

SpecParse == InitParse /\ [][NextParse]_vars

\* the places in the order of the strategies, and the strategies that yield counts
Strategies(response) ==
    << response.usage, response.token_usage, response.dict_usage, response.repr >>

Succeeds(place) == place.names \in CountFields /\ place.first # None /\ place.second # None

\* C30: the strategies are tried in the order usage field, token_usage field,
\* dict payload, pattern on the text, and the counts of the first that succeeds
\* are priced and recorded; the estimates (of the dispatched payload and of the
\* response text) are used only when every strategy fails.
C30_FirstSuccessWins ==
    last.op = "parse_usage" =>
        LET s    == Strategies(last.response)
            hits == {i \in 1..Len(s) : Succeeds(s[i])}
        IN  IF hits = {}
            THEN last.priced = [input_tokens  |-> last.estimated_input_tokens,
                                output_tokens |-> _estimate_tokens(last.text)]
            ELSE LET i == CHOOSE k \in hits : \A m \in hits : k <= m
                 IN  last.priced = [input_tokens |-> s[i].first, output_tokens |-> s[i].second]


-----------------------------------------------------------------------------
(* The cost prediction: SpecPredict                                        *)
(*                                                                         *)
(* get_cost_prediction is asked for requests of several lengths by an      *)
(* actor with and one without history, between records and clock ticks.    *)
(* The predicted cost is not rounded by the code; it is kept here in       *)
(* thousandths of a micro-dollar, in which 0.003/1000 per token is 3000.   *)

\* timeframe_hours=168: seven days
WeekTicks == 7 * TicksPerDay

\* CostBudgetManager.get_cost_prediction
get_cost_prediction(ev, t, query, agent_name) ==
    LET query_tokens == Len(query) \div 4
        agent_costs  == get_agent_costs(ev, t, WeekTicks)
        known        == agent_name \in DOMAIN agent_costs
        predicted_cost ==
            IF known /\ agent_costs[agent_name] > 0
            THEN query_tokens * 3000 + query_tokens * 2 * 15000
            ELSE query_tokens * 3000 + (query_tokens * 3 * 15000) \div 2
    IN  [estimated_cost          |-> predicted_cost,
         estimated_input_tokens  |-> query_tokens,
         estimated_output_tokens |-> (query_tokens * 3) \div 2,
         confidence              |-> IF known THEN "medium" ELSE "low"]

PredictQueries == {"", "abc", "abcd", "abcdefgh", "abcdefghijkl", "abcdefghijklmnop"}
PredictAgents == {"Test Agent", "New Agent"}

\* what earlier processes left in cost_events: nothing, an event of this week,
\* or an event older than a week
PredictEvents ==
    { <<>>,
      << CostEvent(0, "Test Agent", 0, DefaultModel, 1, 1, "") >>,
      << CostEvent(0 - WeekTicks - 1, "Test Agent", 0, DefaultModel, 1, 1, "") >> }

InitPredict ==
    /\ now = 0
    /\ events \in PredictEvents
    /\ tracked = <<>>
    /\ cache = EmptyCache
    /\ current_session_id = 0
    /\ session_budget \in GatewaySessionBudgets
    /\ daily_budget \in GatewayDailyBudgets
    /\ current_agent = "Unknown"
    /\ current_task = "Unknown Task"
    /\ status = NoStatus
    /\ last = NoCall
    /\ calls = 0

\* get_cost_prediction, called directly
Predict(query, agent_name) ==
    /\ last' = [op |-> "predict", query |-> query, agent_name |-> agent_name,
                week |-> get_agent_costs(events, now, WeekTicks)]
                   @@ get_cost_prediction(events, now, query, agent_name)
    /\ UNCHANGED <<now, events, cache, current_session_id, session_budget, daily_budget,
                   current_agent, current_task, tracked, status, calls>>

NextPredict ==
    \/ Tick
    \/ \E m \in TrackerModels, fault \in RecordFaults : TrackModelCall(m, 2, 1, fault)
    \/ \E m \in TrackerModels : TrackModelCall(m, 0, 0, "ok")
    \/ \E q \in PredictQueries, a \in PredictAgents : Predict(q, a)

SpecPredict == InitPredict /\ [][NextPredict]_vars

\* the trailing-week cost aggregate of an actor, 0 when it has none
WeekAggregate(week, agent_name) == IF agent_name \in DOMAIN week THEN week[agent_name] ELSE 0

\* C31: predict estimates the input units as text length / 4; for an actor with
\* a non-zero trailing-week aggregate the confidence is "medium" and the output
\* units equal the input units, otherwise the confidence is "low" and the output
\* units are 1.5 x the input units; the cost is computed from those counts.
C31_Prediction ==
    last.op = "predict" =>
        LET in == last.estimated_input_tokens
        IN  /\ in = Len(last.query) \div 4
            /\ IF WeekAggregate(last.week, last.agent_name) > 0
               THEN /\ last.confidence = "medium"
                    /\ last.estimated_output_tokens = in
                    /\ last.estimated_cost = in * 3000 + in * 15000
               ELSE /\ last.confidence = "low"
                    /\ last.estimated_output_tokens = (3 * in) \div 2
                    /\ 2 * last.estimated_cost = 2 * in * 3000 + 3 * in * 15000


-----------------------------------------------------------------------------
(* The budget status over several processes: SpecTips                      *)
(*                                                                         *)
(* The stores outlive the process.  A restart gives the tracker a new      *)
(* session id and, hash randomisation being on by default, a new hash      *)
(* function for strings: the value remembered in status no longer binds    *)
(* the budget status asked by the new process.                             *)

InitTips ==
    /\ now = 1
    /\ events \in PriorEvents
    /\ cache = EmptyCache
    /\ tracked = <<>>
    /\ current_session_id = 1
    /\ session_budget \in QuerySessionBudgets
    /\ daily_budget \in QueryDailyBudgets
    /\ current_agent = "Unknown"
    /\ current_task = "Unknown Task"
    /\ status = NoStatus
    /\ last = NoCall
    /\ calls = 0

\* the process ends and a new one is started: Config builds a new CostTracker,
\* whose session id is the second of its construction
Restart ==
    /\ current_session_id' = now
    /\ status' = IF status.op = "status" THEN [status EXCEPT !.op = "restarted"] ELSE status
    /\ last' = NoCall
    /\ UNCHANGED <<now, events, cache, session_budget, daily_budget,
                   current_agent, current_task, tracked, calls>>

NextTips ==
    \/ Tick
    \/ \E m \in TrackerModels, fault \in RecordFaults : TrackModelCall(m, 2, 1, fault)
    \/ \E h \in TipHashes : QueryBudgetStatus(h)
    \/ Restart

SpecTips == InitTips /\ [][NextTips]_vars

\* the generic tips among the recommendations of a budget status
TipsIn(s) ==
    {s.recommendations[i] : i \in 1..Len(s.recommendations)}
        \cap {optimization_tips[i] : i \in 1..Len(optimization_tips)}

\* a moderate scope brings the tip
TipWhenModerate ==
    status.op = "status" =>
        ((status.session = "MODERATE" \/ status.daily = "MODERATE") => TipsIn(status) # {})

\* a budget status shows the tip shown for the same date before, restart or not
SameTipPerDate ==
    (/\ status.op \in {"status", "restarted"}
     /\ status'.op = "status"
     /\ status'.date = status.date
     /\ TipsIn(status) # {}
     /\ TipsIn(status') # {}) => TipsIn(status') = TipsIn(status)

\* C32: the generic tip is among the recommendations whenever the usage of the
\* session or of the day is in the moderate band (30-70%), also when the other
\* scope is at or above 70%; and for one calendar date the same tip is chosen
\* at every call, in the same process or in a later one.
C32_TipRule == []TipWhenModerate /\ [][SameTipPerDate]_vars


-----------------------------------------------------------------------------
(* Claims about hit counters and failed calls of the gateway, checked under Spec *)

\* C37: every increment of a hit counter belongs to a gateway call that returned
\* the cached response without dispatching: a call that dispatches the external
\* call has incremented no hit counter, whatever the stored response is, the
\* empty string included.
C37_HitsAreServed ==
    (last.op = "call" /\ last.dispatched) => last.lookup = "miss"

\* C40: a gateway call whose external call raises leaves the cache as it was: no
\* entry created or replaced, no hit_count and no timestamp changed.
C40_FailedCallKeepsCache ==
    [][ (calls' = calls + 1 /\ last'.op = "call" /\ last'.ext = "raise") => cache' = cache ]_vars


-----------------------------------------------------------------------------
(* The LLM manager: SpecManager                                            *)
(*                                                                         *)
(* All agents use the same model, so the manager holds one TrackedLLM.     *)
(* status keeps which agents were handed a handle and which of them is     *)
(* about to call through its handle.                                       *)

ManagerAgents == {"Research Coordinator", "Literature Searcher"}
NoHandles == [op |-> "handles", held |-> {}, caller |-> "none"]

InitManager ==
    /\ now = 0
    /\ events = <<>>
    /\ cache = EmptyCache
    /\ current_session_id = 0
    /\ session_budget \in GatewaySessionBudgets
    /\ daily_budget \in GatewayDailyBudgets
    /\ current_agent = "Unknown"
    /\ current_task = "Unknown Task"
    /\ tracked = <<>>
    /\ status = NoHandles
    /\ last = NoCall
    /\ calls = 0

\* TrackedLLMManager.get_tracked_llm(model, api_key, agent_name) for the one model:
\* the instance is created at the first request and returned at every request
get_tracked_llm(agent_name) ==
    /\ current_agent' = agent_name
    /\ current_task' = ""
    /\ status' = [status EXCEPT !.held = @ \cup {agent_name}]
    /\ UNCHANGED <<now, events, cache, current_session_id, session_budget, daily_budget,
                   tracked, last, calls>>

\* TrackedLLMManager.set_agent_context(model, agent_name, task_description)
set_agent_context(agent_name, task_description) ==
    /\ status.held # {}
    /\ current_agent' = agent_name
    /\ current_task' = task_description
    /\ UNCHANGED <<now, events, cache, current_session_id, session_budget, daily_budget,
                   tracked, status, last, calls>>

\* the agent that was handed a handle as agent_name is the next to call through it
UseHandle(agent_name) ==
    /\ agent_name \in status.held
    /\ status' = [status EXCEPT !.caller = agent_name]
    /\ UNCHANGED <<now, events, cache, current_session_id, session_budget, daily_budget,
                   current_agent, current_task, tracked, last, calls>>

\* TrackedLLM.call through the handle of status.caller
HandleCall(messages) ==
    /\ status.caller \in status.held
    /\ call(messages)

NextManager ==
    \/ \E a \in ManagerAgents : get_tracked_llm(a)
    \/ \E a \in ManagerAgents, d \in Tasks : set_agent_context(a, d)
    \/ \E a \in ManagerAgents : UseHandle(a)
    \/ \E q \in Queries : HandleCall(<<q>>)

SpecManager == InitManager /\ [][NextManager]_vars

\* C36: every UsageEvent and cache entry produced by a call through the handle
\* that get_tracked_llm returned for actor A is attributed to A, whatever
\* get_tracked_llm and set_agent_context calls were made for other agents of
\* the same model in between.
C36_HandleKeepsActor ==
    [][ (calls' = calls + 1 /\ last'.op = "call") =>
          /\ \A i \in 1..Len(last'.added) : last'.added[i].agent_name = status.caller
          /\ \A i \in 1..Len(cache') :
                (cache'[i].timestamp = IsoFormat(now) /\ last'.stored)
                    => cache'[i].agent_name = status.caller ]_vars


-----------------------------------------------------------------------------
(* Concurrent callers of the cache: SpecCacheRace                          *)
(*                                                                         *)
(* Several callers (threads, or processes on the same database file) use   *)
(* the cache on one key.  Every method opens a connection of its own; a    *)
(* statement with its commit is one step.  get_cached_response is two      *)
(* steps, the SELECT and the UPDATE, with the steps of the other callers   *)
(* between them.  last keeps the position and the locals of each caller,   *)
(* tracked the history of the key: how many stores were committed on it    *)
(* (version) and how many lookups returned the response of the last one    *)
(* (hits).                                                                 *)

Threads == {1, 2}
RaceQuery == "q"
RaceAgent == "A"
RaceKey == _generate_query_hash(RaceQuery, RaceAgent)
Idle == [pc |-> "idle"]

InitCacheRace ==
    /\ now = 0
    /\ events = <<>>
    /\ cache \in PriorCache
    /\ tracked = [version |-> 0, hits |-> IF cache = <<>> THEN 0 ELSE cache[1].hit_count - 1]
    /\ current_session_id = 0
    /\ session_budget \in GatewaySessionBudgets
    /\ daily_budget \in GatewayDailyBudgets
    /\ current_agent = "Unknown"
    /\ current_task = "Unknown Task"
    /\ status = NoStatus
    /\ last = [t \in Threads |-> Idle]
    /\ calls = 0

\* get_cached_response up to fetchone: the cutoff is computed, the SELECT runs
LookupSelect(t) ==
    /\ last[t].pc \in {"idle", "done"}
    /\ calls < MaxCalls
    /\ calls' = calls + 1
    /\ LET Selected(row) == LookupSelects(row, RaceKey, RaceAgent, now)
           result == SelectSeq(cache, Selected)
       IN  last' = [last EXCEPT ![t] =
                       IF result # <<>>
                       THEN [pc |-> "update", op |-> "lookup", found |-> TRUE,
                             response |-> Head(result).response, version |-> tracked.version]
                       ELSE [pc |-> "done", op |-> "lookup", found |-> FALSE]]
    /\ UNCHANGED <<now, events, cache, current_session_id, session_budget, daily_budget,
                   current_agent, current_task, tracked, status>>

\* get_cached_response from the UPDATE on: the counter of the row that holds the
\* key now is incremented, the response read by the SELECT is returned
LookupUpdate(t) ==
    /\ last[t].pc = "update"
    /\ cache' = CountHit(cache, RaceKey, RaceAgent)
    /\ tracked' = IF last[t].version = tracked.version
                  THEN [tracked EXCEPT !.hits = @ + 1] ELSE tracked
    /\ last' = [last EXCEPT ![t] = [@ EXCEPT !.pc = "done"]
                                      @@ [counted |-> IF cache' = cache THEN 0 - 1
                                                      ELSE tracked.version]]
    /\ UNCHANGED <<now, events, current_session_id, session_budget, daily_budget,
                   current_agent, current_task, status, calls>>

\* cache_response: one INSERT OR REPLACE and its commit
StoreCommit(t, res) ==
    /\ last[t].pc \in {"idle", "done"}
    /\ calls < MaxCalls
    /\ calls' = calls + 1
    /\ cache' = cache_response(cache, RaceQuery, res.response, RaceAgent, res.input_tokens,
                               res.output_tokens, res.cost, now, "ok").cache
    /\ tracked' = [version |-> tracked.version + 1, hits |-> 0]
    /\ last' = [last EXCEPT ![t] = [pc |-> "done", op |-> "store"]]
    /\ UNCHANGED <<now, events, current_session_id, session_budget, daily_budget,
                   current_agent, current_task, status>>

\* cleanup_expired_cache: one DELETE and its commit
CleanupCommit(t) ==
    /\ last[t].pc \in {"idle", "done"}
    /\ calls < MaxCalls
    /\ calls' = calls + 1
    /\ cache' = cleanup_expired_cache(cache, now).cache
    /\ last' = [last EXCEPT ![t] = [pc |-> "done", op |-> "cleanup"]]
    /\ UNCHANGED <<now, events, current_session_id, session_budget, daily_budget,
                   current_agent, current_task, tracked, status>>

\* the clock, the callers being where they are
RaceTick ==
    /\ now < MaxTime
    /\ now' = now + 1
    /\ UNCHANGED <<events, cache, current_session_id, session_budget, daily_budget,
                   current_agent, current_task, tracked, status, last, calls>>

NextCacheRace ==
    \/ RaceTick
    \/ \E t \in Threads : LookupSelect(t)
    \/ \E t \in Threads : LookupUpdate(t)
    \/ \E t \in Threads, res \in CacheResults : StoreCommit(t, res)
    \/ \E t \in Threads : CleanupCommit(t)

SpecCacheRace == InitCacheRace /\ [][NextCacheRace]_vars

\* C38: with lookups, stores and evictions interleaving on one fingerprint, the
\* hit_count - 1 of the entry is the number of lookups that returned its current
\* response; a lookup that read before a re-store does not increment the
\* counter of the replacing entry, and returns the response of the entry whose
\* counter it incremented.
C38_HitsMatchLookups ==
    /\ \A i \in 1..Len(cache) : cache[i].hit_count - 1 = tracked.hits
    /\ \A t \in Threads :
          (last[t].pc = "done" /\ last[t].op = "lookup" /\ last[t].found)
              => last[t].counted \in {0 - 1, last[t].version}


-----------------------------------------------------------------------------
(* Concurrent gateway calls: SpecConcurrent                                *)
(*                                                                         *)
(* Two callers run TrackedLLM.call for the same agent and request at the   *)
(* same time.  A step is what a caller does up to and including its next   *)
(* access to the stores or to the external service; each statement with    *)
(* its commit is atomic, each method uses a connection of its own.         *)
(* last keeps the position (pc), the phase (the try block or the except    *)
(* clause) and the locals of each caller; tracked keeps the store that     *)
(* committed last and the sum of the costs of the events appended.         *)

\* the calls are short: the clock advances at most once while they run
RaceTicks == 1
RaceMessages == << "it is important to q" >>
RaceTask == "Unknown Task"
\* what the external call does: it raises, or returns one of two texts
RaceOutcomes ==
    { [kind |-> "raise", text |-> "", response |-> PlainResponse],
      [kind |-> "return", text |-> "r", response |-> PlainResponse],
      [kind |-> "return", text |-> "s", response |-> ReportingResponse] }

NoThread ==
    [pc |-> "idle", phase |-> "try", lookup |-> "none", response |-> "",
     input_tokens |-> 0, output_tokens |-> 0, cost |-> 0, stamp |-> 0, stored |-> FALSE,
     outcome |-> "none", seen |-> 0]
NoStore == [by |-> 0, response |-> "", cost |-> 0, stamp |-> 0]

InitConcurrent ==
    /\ now = 0
    /\ events = <<>>
    /\ cache = EmptyCache
    /\ tracked = [committed |-> NoStore, appended_cost |-> 0]
    /\ current_session_id = 0
    /\ session_budget \in GatewaySessionBudgets
    /\ daily_budget \in GatewayDailyBudgets
    /\ current_agent = "Unknown"
    /\ current_task = RaceTask
    /\ status = NoStatus
    /\ last = [t \in Threads |-> NoThread]
    /\ calls = 0

\* call, lines 150-155, and get_cached_response up to fetchone
CallSelect(t) ==
    /\ last[t].pc = "idle"
    /\ LET input_text == InputText(RaceMessages)
           query_hash == _generate_query_hash(input_text, current_agent)
           Selected(row) == LookupSelects(row, query_hash, current_agent, now)
           result == SelectSeq(cache, Selected)
       IN  last' = [last EXCEPT ![t] =
                       IF result # <<>>
                       THEN [@ EXCEPT !.pc = "update", !.lookup = "hit",
                                      !.response = Head(result).response]
                       ELSE [@ EXCEPT !.pc = "dispatch", !.lookup = "miss"]]
    /\ UNCHANGED <<now, events, cache, current_session_id, session_budget, daily_budget,
                   current_agent, current_task, tracked, status, calls>>

\* get_cached_response from the UPDATE on, and the test of its value at line 156
CallUpdate(t) ==
    /\ last[t].pc = "update"
    /\ cache' = CountHit(cache, _generate_query_hash(InputText(RaceMessages), current_agent),
                         current_agent)
    /\ last' = [last EXCEPT ![t] =
                   IF @.response # ""
                   THEN [@ EXCEPT !.pc = "done", !.outcome = "cached"]
                   ELSE [@ EXCEPT !.pc = "dispatch"]]
    /\ UNCHANGED <<now, events, current_session_id, session_budget, daily_budget,
                   current_agent, current_task, tracked, status, calls>>

\* the optimizer, llm.call and, when it returns, lines 196-215 and the
\* CacheEntry with its timestamp
CallExternal(t, ext) ==
    /\ last[t].pc = "dispatch"
    /\ LET p     == CallPrelude(cache, now, current_agent, RaceMessages)
           usage == UsageForPricing(ext.response, ext.text, p.estimated_input_tokens)
       IN  last' = [last EXCEPT ![t] =
                       IF ext.kind = "raise"
                       THEN [@ EXCEPT !.pc = "record", !.phase = "except"]
                       ELSE [@ EXCEPT !.pc = "store", !.response = ext.text,
                                      !.input_tokens = usage.input_tokens,
                                      !.output_tokens = usage.output_tokens,
                                      !.cost = calculate_cost(GatewayModel, usage.input_tokens,
                                                              usage.output_tokens),
                                      !.stamp = now]]
    /\ UNCHANGED <<now, events, cache, current_session_id, session_budget, daily_budget,
                   current_agent, current_task, tracked, status, calls>>

\* cache_response from sqlite3.connect on
CallStore(t, fault) ==
    /\ last[t].pc = "store"
    /\ cache' = cache_response(cache, InputText(RaceMessages), last[t].response, current_agent,
                               last[t].input_tokens, last[t].output_tokens, last[t].cost,
                               last[t].stamp, fault).cache
    /\ tracked' = IF fault = "ok"
                  THEN [tracked EXCEPT !.committed = [by |-> t, response |-> last[t].response,
                                                      cost |-> last[t].cost,
                                                      stamp |-> last[t].stamp]]
                  ELSE tracked
    /\ last' = [last EXCEPT ![t] =
                   IF fault = "connect"
                   THEN [@ EXCEPT !.pc = "record", !.phase = "except"]
                   ELSE [@ EXCEPT !.pc = "record", !.stored = (fault = "ok")]]
    /\ UNCHANGED <<now, events, current_session_id, session_budget, daily_budget,
                   current_agent, current_task, status, calls>>

\* the end of a call in the phase it is in: the try block returns the response,
\* the except clause re-raises
Finish(c) ==
    IF c.phase = "try"
    THEN [c EXCEPT !.pc = "done", !.outcome = "returned"]
    ELSE [c EXCEPT !.pc = "done", !.outcome = "raised"]

\* a gateway that answers an error by dispatching the call again
Fail_Retries(c) ==
    [c EXCEPT !.pc = "dispatch", !.phase = "try"]

\* an error in the phase the call is in: the try block passes to the except
\* clause, an error inside the except clause leaves the call
Fail(c) ==
    IF c.phase = "try"
    THEN [c EXCEPT !.pc = "record", !.phase = "except"]
    ELSE [c EXCEPT !.pc = "done", !.outcome = "raised"]

\* track_api_call up to the commit of _store_event, in the try block or in the
\* except clause
CallRecord(t, fault) ==
    /\ last[t].pc = "record"
    /\ fault \in {"ok", "store"}
    /\ LET p  == CallPrelude(cache, now, current_agent, RaceMessages)
           tr == IF last[t].phase = "try"
                 THEN track_api_call(events, now, current_session_id, current_agent,
                                     GatewayModel, last[t].input_tokens,
                                     last[t].output_tokens, current_task, fault)
                 ELSE track_api_call(events, now, current_session_id, current_agent,
                                     GatewayModel, p.estimated_input_tokens, 0,
                                     "FAILED: " \o current_task, fault)
       IN  /\ events' = tr.events
           /\ tracked' = IF fault = "ok"
                         THEN [tracked EXCEPT !.appended_cost =
                                                  @ + tr.events[Len(tr.events)].cost_usd]
                         ELSE tracked
           /\ last' = [last EXCEPT ![t] =
                          IF fault = "ok"
                          THEN [@ EXCEPT !.pc = "alert"]
                          ELSE Fail(@)]
    /\ UNCHANGED <<now, cache, current_session_id, session_budget, daily_budget,
                   current_agent, current_task, status, calls>>

\* _check_budget_alerts: the aggregates are read; then the call returns or raises
CallAlert(t, fault) ==
    /\ last[t].pc = "alert"
    /\ fault \in {"ok", "alert"}
    /\ last' = [last EXCEPT ![t] =
                   IF fault = "ok"
                   THEN [Finish(@) EXCEPT !.seen = get_session_cost(events, current_session_id)]
                   ELSE Fail(@)]
    /\ UNCHANGED <<now, events, cache, current_session_id, session_budget, daily_budget,
                   current_agent, current_task, tracked, status, calls>>

\* the next step of caller t, whatever the environment does during it
ThreadStep(t) ==
    \/ CallSelect(t)
    \/ CallUpdate(t)
    \/ \E ext \in RaceOutcomes : CallExternal(t, ext)
    \/ \E fault \in StoreFaults : CallStore(t, fault)
    \/ \E fault \in RecordFaults : CallRecord(t, fault)
    \/ \E fault \in RecordFaults : CallAlert(t, fault)

\* the clock during the two calls
CallTick ==
    /\ now < RaceTicks
    /\ now' = now + 1
    /\ UNCHANGED <<events, cache, current_session_id, session_budget, daily_budget,
                   current_agent, current_task, tracked, status, last, calls>>

NextConcurrent ==
    \/ CallTick
    \/ \E t \in Threads : ThreadStep(t)

SpecConcurrent == InitConcurrent /\ [][NextConcurrent]_vars


\* the rows of the cache that hold the key of the two calls
RaceRows ==
    LET query_hash == _generate_query_hash(InputText(RaceMessages), current_agent)
        Held(row)  == row.query_hash = query_hash
    IN  SelectSeq(cache, Held)

\* both calls are over, both missed the cache and both committed their store
BothMissedAndStored ==
    \A t \in Threads : last[t].pc = "done" /\ last[t].lookup = "miss" /\ last[t].stored

\* C33: when two gateway calls for the same actor and request run concurrently
\* and both miss the cache, both dispatch and store, and the cache is not
\* corrupted: it ends with exactly one entry for the fingerprint, which holds the
\* response, cost and timestamp of the store that committed last and hit_count
\* 1; each call that returned has recorded its UsageEvent.
C33_DuplicateDispatchIsBenign ==
    BothMissedAndStored =>
        /\ Len(RaceRows) = 1
        /\ RaceRows[1].response = tracked.committed.response
        /\ RaceRows[1].cost_saved = tracked.committed.cost
        /\ RaceRows[1].timestamp = IsoFormat(tracked.committed.stamp)
        /\ RaceRows[1].hit_count = 1
        /\ (\A t \in Threads : last[t].outcome = "returned") => Len(events) = Cardinality(Threads)

\* both calls dispatched and returned different responses at different ticks;
\* the entry is the one of the call that took its timestamp first and committed last
C33_Witness ==
    /\ BothMissedAndStored
    /\ \A t \in Threads : last[t].outcome = "returned"
    /\ last[1].response = "r" /\ last[2].response = "s"
    /\ last[1].stamp < last[2].stamp
    /\ tracked.committed.by = 1
    /\ RaceRows[1].response = "r"
    /\ Len(events) = 2


\* C34: with recorders appending UsageEvents concurrently no event is lost and
\* none is counted twice: session_cost and daily_cost are the sum of the costs
\* of all the events appended, and every aggregate that a caller read is the sum
\* of the events that were committed when it read.
C34_ConcurrentAppendsAddUp ==
    /\ get_session_cost(events, current_session_id) = tracked.appended_cost
    /\ get_daily_cost(events, now) = tracked.appended_cost
    /\ \A t \in Threads :
          \E k \in 0..Len(events) :
              last[t].seen = get_session_cost(SubSeq(events, 1, k), current_session_id)

\* both callers have recorded, one of them twice (its alert check failed), and
\* one read the session cost before the other's events were committed
C34_Witness ==
    /\ \A t \in Threads : last[t].pc = "done"
    /\ Len(events) = 3
    /\ tracked.appended_cost > 0
    /\ get_session_cost(events, current_session_id) = tracked.appended_cost
    /\ last[1].outcome = "returned"
    /\ last[1].seen > 0
    /\ last[1].seen < tracked.appended_cost


\* every caller keeps taking its next step; the step of the external call is
\* among them, so that call eventually returns or raises
SpecConcurrentLive == SpecConcurrent /\ \A t \in Threads : WF_vars(ThreadStep(t))

\* the lookup of the call missed, so the call went on to dispatch
Dispatched(c) == c.lookup = "miss"

Terminal(c) == c.pc = "done" /\ c.outcome \in {"cached", "returned", "raised"}

\* C35: every gateway call terminates: given that the external call returns or
\* raises, a call that has begun reaches a terminal outcome (the cached
\* response, the fresh result or a raised error) and does not stay in an
\* intermediate stage; once it has dispatched it ends with the result or an
\* error.
C35_CallTerminates ==
    /\ \A t \in Threads : (last[t].pc # "done") ~> Terminal(last[t])
    /\ [](\A t \in Threads :
            /\ last[t].pc = "done" => Terminal(last[t])
            /\ (last[t].pc = "done" /\ Dispatched(last[t])) =>
                   last[t].outcome \in {"returned", "raised"})

\* one caller was served from the cache, the other dispatched, failed to record
\* in the try block and in the except clause, and raised
C35_Witness ==
    /\ last[1].pc = "done" /\ last[1].outcome = "raised" /\ last[1].phase = "except"
    /\ last[1].lookup = "miss" /\ last[1].stored
    /\ last[2].pc = "done" /\ last[2].outcome = "cached"
    /\ events = <<>>
====
